---- MODULE Spec2Model ----
(***************************************************************************)
(* Change-tracking ingestion pipeline of scraper_simple:                   *)
(*   src/src/domain/property.rs  (normalizer, diff engine)                 *)
(*   src/src/db/properties.rs    (transactional persister)                 *)
(* The database is modelled as the three tables the persister writes       *)
(* (properties, property_history, property_sources), once as the durable   *)
(* committed state and once as the view of the open transaction.           *)
(***************************************************************************)
EXTENDS Integers, Sequences, FiniteSets, TLC

(* ------------------------------------------------------------------ *)
(* Bounds                                                             *)
(* ------------------------------------------------------------------ *)
\* total number of raw payloads handed to save_scraped_properties in a run
MaxRecords == 3
\* largest batch (one scrape page) handed to one call
MaxBatch == 2
\* largest value of the wall clock
MaxClock == 2
\* number of single-field edits applied to a base pair in the diff harness
MaxEdits == 2
\* number of scrapes of one listing fed to the recent-changes harness
MaxScrapes == 8
\* number of magic links issued in a run
MaxLinks == 2
\* number of redeem calls in a run
MaxAttempts == 3
\* number of direct ensure_entitlement / upgrade_user_plan calls in a run
MaxPlanCalls == 2
\* number of create_mailing calls in a run
MaxMailCalls == 3
\* number of POST /admin/scrape requests in a run
MaxPosts == 3
\* number of magic links issued in a run of the login handlers
MaxLoginLinks == 1
\* number of GET /auth/magic requests in a run
MaxLogins == 2
\* number of GET /export requests in a run
MaxExports == 5

(* ------------------------------------------------------------------ *)
(* Option<T>: None is the empty sequence, Some(v) the one-element one  *)
(* ------------------------------------------------------------------ *)
None == <<>>
Some(v) == <<v>>
IsSome(o) == o # <<>>
Unwrap(o) == o[1]

(* ------------------------------------------------------------------ *)
(* Text of values (Display / to_string)                               *)
(* ------------------------------------------------------------------ *)
Digit == <<"0", "1", "2", "3", "4", "5", "6", "7", "8", "9">>

RECURSIVE NatText(_)
NatText(n) == IF n < 10 THEN Digit[n + 1]
              ELSE NatText(n \div 10) \o Digit[(n % 10) + 1]

\* i64::to_string
IntText(n) == IF n < 0 THEN "-" \o NatText(0 - n) ELSE NatText(n)

\* bool::to_string
BoolText(b) == IF b THEN "true" ELSE "false"

Pad2(n) == IF n < 10 THEN "0" \o NatText(n) ELSE NatText(n)

\* NaiveDateTime::to_string, "%Y-%m-%d %H:%M:%S"
DateText(d) == NatText(d.y) \o "-" \o Pad2(d.mo) \o "-" \o Pad2(d.d) \o " "
               \o Pad2(d.h) \o ":" \o Pad2(d.mi) \o ":" \o Pad2(d.s)

(* ------------------------------------------------------------------ *)
(* The ten tracked fields, in the order the code visits them          *)
(* ------------------------------------------------------------------ *)
Fields == <<"status", "list_price", "sold_price", "sold_date", "is_pending",
            "is_contingent", "is_new_listing", "is_foreclosure",
            "is_price_reduced", "is_coming_soon">>

FieldSet == {Fields[i] : i \in 1..Len(Fields)}

\* v.to_string() of the value of tracked field f
FieldText(f, v) ==
    CASE f = "status" -> v
      [] f \in {"list_price", "sold_price"} -> IntText(v)
      [] f = "sold_date" -> DateText(v)
      [] OTHER -> BoolText(v)

(* ------------------------------------------------------------------ *)
(* Diff engine: TrackedProperty::diff                                 *)
(* ------------------------------------------------------------------ *)
\* compare_and_log! with unwrap_or_default() on the previous value as well
compare_and_log_prev_default(self, new, f) ==
    IF self[f] # new[f]
    THEN << [property_id    |-> self.id,
             field_name     |-> f,
             previous_value |-> Some(IF IsSome(self[f])
                                     THEN FieldText(f, Unwrap(self[f])) ELSE ""),
             current_value  |-> IF IsSome(new[f])
                                THEN FieldText(f, Unwrap(new[f]))
                                ELSE ""] >>
    ELSE << >>

\* compare_and_log! without its `if self.$field != new.$field` guard
compare_and_log_unguarded(self, new, f) ==
    << [property_id    |-> self.id,
        field_name     |-> f,
        previous_value |-> IF IsSome(self[f])
                           THEN Some(FieldText(f, Unwrap(self[f])))
                           ELSE None,
        current_value  |-> IF IsSome(new[f])
                           THEN FieldText(f, Unwrap(new[f]))
                           ELSE ""] >>

\* compare_and_log! with `==` in place of `!=` in its guard
compare_and_log_on_equal(self, new, f) ==
    IF self[f] = new[f]
    THEN << [property_id    |-> self.id,
             field_name     |-> f,
             previous_value |-> IF IsSome(self[f])
                                THEN Some(FieldText(f, Unwrap(self[f])))
                                ELSE None,
             current_value  |-> IF IsSome(new[f])
                                THEN FieldText(f, Unwrap(new[f]))
                                ELSE ""] >>
    ELSE << >>

\* one expansion of the compare_and_log! macro for field f
compare_and_log(self, new, f) ==
    IF self[f] # new[f]
    THEN << [property_id    |-> self.id,
             field_name     |-> f,
             previous_value |-> IF IsSome(self[f])
                                THEN Some(FieldText(f, Unwrap(self[f])))
                                ELSE None,
             current_value  |-> IF IsSome(new[f])
                                THEN FieldText(f, Unwrap(new[f]))
                                ELSE ""] >>
    ELSE << >>

\* diff with the invocations for sold_price and sold_date in the other order
diff_reordered(self, new) ==
       compare_and_log(self, new, "status")
    \o compare_and_log(self, new, "list_price")
    \o compare_and_log(self, new, "sold_date")
    \o compare_and_log(self, new, "sold_price")
    \o compare_and_log(self, new, "is_pending")
    \o compare_and_log(self, new, "is_contingent")
    \o compare_and_log(self, new, "is_new_listing")
    \o compare_and_log(self, new, "is_foreclosure")
    \o compare_and_log(self, new, "is_price_reduced")
    \o compare_and_log(self, new, "is_coming_soon")

diff(self, new) ==
       compare_and_log(self, new, "status")
    \o compare_and_log(self, new, "list_price")
    \o compare_and_log(self, new, "sold_price")
    \o compare_and_log(self, new, "sold_date")
    \o compare_and_log(self, new, "is_pending")
    \o compare_and_log(self, new, "is_contingent")
    \o compare_and_log(self, new, "is_new_listing")
    \o compare_and_log(self, new, "is_foreclosure")
    \o compare_and_log(self, new, "is_price_reduced")
    \o compare_and_log(self, new, "is_coming_soon")

(* ------------------------------------------------------------------ *)
(* Normalizer: ScrapedProperty::from_scraper_property                 *)
(* ------------------------------------------------------------------ *)
Date1 == [y |-> 2023, mo |-> 10, d |-> 1, h |-> 0, mi |-> 0, s |-> 0]
Date2 == [y |-> 2024, mo |-> 3, d |-> 5, h |-> 10, mi |-> 30, s |-> 0]

\* DateTime::parse_from_rfc3339(s).ok() followed by with_timezone(&Utc).naive_utc(),
\* on the timestamp strings the payloads of this model carry
parse_date(date_str) ==
    IF ~IsSome(date_str) THEN None
    ELSE CASE Unwrap(date_str) = "2023-10-01T00:00:00Z"      -> Some(Date1)
           [] Unwrap(date_str) = "2023-10-01T02:00:00+02:00" -> Some(Date1)
           [] Unwrap(date_str) = "2024-03-05T10:30:00Z"      -> Some(Date2)
           [] OTHER                                          -> None

NonEmpty_allow_empty(o) == o

\* Option<&str>.filter(|s| !s.is_empty())
NonEmpty(o) == IF IsSome(o) /\ Unwrap(o) # "" THEN o ELSE None

\* flags.as_ref().and_then(|f| f.<name>)
FlagOf(prop, name) == IF IsSome(prop.flags) THEN Unwrap(prop.flags)[name] ELSE None

Ok(v) == [ok |-> TRUE, val |-> v]
Err_without_message(e) == [ok |-> FALSE, err |-> "Validation failed"]

Err(e) == [ok |-> FALSE, err |-> e]

from_scraper_property(prop) ==
    IF ~IsSome(prop.location.address) THEN Err("Missing address object")
    ELSE LET address == Unwrap(prop.location.address) IN
    IF ~IsSome(NonEmpty(address.line)) THEN Err("Missing or empty address line")
    ELSE IF ~IsSome(NonEmpty(address.city)) THEN Err("Missing or empty city")
    ELSE IF ~IsSome(NonEmpty(address.postal_code)) THEN Err("Missing or empty postal code")
    ELSE IF ~IsSome(NonEmpty(prop.source.listing_id))
         THEN Err("Missing or empty source listing id")
    ELSE Ok([source_name       |-> IF IsSome(prop.source.name)
                                   THEN Unwrap(prop.source.name) ELSE "unknown",
             source_listing_id |-> Unwrap(prop.source.listing_id),
             address_line      |-> Unwrap(address.line),
             city              |-> Unwrap(address.city),
             postal_code       |-> Unwrap(address.postal_code),
             state_abbr        |-> address.state_code,
             county_name       |-> IF IsSome(prop.location.county)
                                   THEN Unwrap(prop.location.county).name ELSE None,
             status            |-> prop.status,
             list_price        |-> prop.list_price,
             sold_price        |-> prop.sold_price,
             sold_date         |-> parse_date(IF IsSome(prop.description)
                                              THEN Unwrap(prop.description).sold_date
                                              ELSE None),
             is_pending        |-> FlagOf(prop, "is_pending"),
             is_contingent     |-> FlagOf(prop, "is_contingent"),
             is_new_listing    |-> FlagOf(prop, "is_new_listing"),
             is_foreclosure    |-> FlagOf(prop, "is_foreclosure"),
             is_price_reduced  |-> FlagOf(prop, "is_price_reduced"),
             is_coming_soon    |-> FlagOf(prop, "is_coming_soon")])

\* a loop that gives up at the first payload it cannot normalize
NormalizeAll_until_invalid(raws) ==
    LET bad == {i \in 1..Len(raws) : ~from_scraper_property(raws[i]).ok}
        n == IF bad = {} THEN Len(raws)
             ELSE (CHOOSE i \in bad : \A j \in bad : i <= j) - 1
    IN [i \in 1..n |-> from_scraper_property(raws[i]).val]

\* the filter_map of save_scraped_properties: invalid payloads are dropped
RECURSIVE NormalizeAll(_)
NormalizeAll(raws) ==
    IF raws = << >> THEN << >>
    ELSE LET r == from_scraper_property(Head(raws)) IN
         (IF r.ok THEN << r.val >> ELSE << >>) \o NormalizeAll(Tail(raws))

(* ------------------------------------------------------------------ *)
(* domain::logic::derive_canonical_status                             *)
(* ------------------------------------------------------------------ *)
derive_canonical_status_contingent_first(sold_date, is_pending, is_contingent, is_coming_soon, raw_status) ==
    IF IsSome(sold_date) THEN "Sold"
    ELSE IF is_contingent THEN "Contingent"
    ELSE IF is_pending THEN "Pending"
    ELSE IF is_coming_soon THEN "Coming Soon"
    ELSE IF IsSome(raw_status)
              /\ Unwrap(raw_status) \in {"for_sale", "ready_to_build", "for_rent"}
         THEN "Active"
    ELSE "Other"

derive_canonical_status(sold_date, is_pending, is_contingent, is_coming_soon, raw_status) ==
    IF IsSome(sold_date) THEN "Sold"
    ELSE IF is_pending THEN "Pending"
    ELSE IF is_contingent THEN "Contingent"
    ELSE IF is_coming_soon THEN "Coming Soon"
    ELSE IF IsSome(raw_status)
         THEN (IF Unwrap(raw_status) \in {"for_sale", "ready_to_build", "for_rent"}
               THEN "Active"
               ELSE "Other")
    ELSE "Other"

(* ------------------------------------------------------------------ *)
(* Raw payloads (scraper::models::Property) fed to the pipeline       *)
(* ------------------------------------------------------------------ *)
NoFlags == [is_pending |-> None, is_contingent |-> None, is_new_listing |-> None,
            is_foreclosure |-> None, is_price_reduced |-> None,
            is_coming_soon |-> None]

\* the tracked part of the "before" row of test_property_diff_logic
VariantBefore ==
    [status |-> Some("for_sale"), list_price |-> Some(500000), sold_price |-> None,
     description |-> Some([sold_date |-> None]),
     flags |-> Some([is_pending |-> Some(FALSE), is_contingent |-> Some(TRUE),
                     is_new_listing |-> Some(TRUE), is_foreclosure |-> Some(FALSE),
                     is_price_reduced |-> Some(FALSE), is_coming_soon |-> Some(FALSE)])]

\* the tracked part of the "after" record of test_property_diff_logic
VariantAfter ==
    [status |-> Some("contingent"), list_price |-> Some(495000), sold_price |-> None,
     description |-> Some([sold_date |-> Some("2023-10-01T00:00:00Z")]),
     flags |-> Some([is_pending |-> Some(TRUE), is_contingent |-> None,
                     is_new_listing |-> Some(FALSE), is_foreclosure |-> Some(TRUE),
                     is_price_reduced |-> Some(TRUE), is_coming_soon |-> Some(TRUE)])]

\* a sparse payload: four of the ten tracked fields present
VariantSparse ==
    [status |-> Some("for_sale"), list_price |-> Some(500000), sold_price |-> None,
     description |-> None,
     flags |-> Some([NoFlags EXCEPT !.is_pending = Some(FALSE),
                                    !.is_new_listing = Some(TRUE)])]

\* a payload with a status and nothing else: no price, no description, no flags
VariantOffMarket ==
    [status |-> Some("off_market"), list_price |-> None, sold_price |-> None,
     description |-> None, flags |-> None]

\* two addresses whose identifying triples differ in the postal code only; the
\* second one lies in another state
AddrA == [line |-> "12 Elm St", city |-> "Provo", postal_code |-> "84601",
          state_code |-> "UT"]
AddrB == [line |-> "12 Elm St", city |-> "Provo", postal_code |-> "84604",
          state_code |-> "ID"]

MkRaw(lid, addr, v) ==
    [source      |-> [name |-> Some("realtor"), listing_id |-> Some(lid)],
     location    |-> [address |-> Some([line |-> Some(addr.line),
                                        city |-> Some(addr.city),
                                        state_code |-> Some(addr.state_code),
                                        postal_code |-> Some(addr.postal_code)]),
                      county |-> Some([name |-> Some("Utah")])],
     description |-> v.description,
     status      |-> v.status,
     list_price  |-> v.list_price,
     sold_price  |-> v.sold_price,
     flags       |-> v.flags]

\* listing L1 seen with two states and at two addresses, listing L2 sharing
\* the first address and carrying no price
ValidPayloads ==
    {MkRaw("L1", AddrA, VariantAfter),
     MkRaw("L1", AddrA, VariantSparse),
     MkRaw("L1", AddrB, VariantSparse),
     MkRaw("L2", AddrA, VariantOffMarket)}

\* a payload without a city: the normalizer rejects it
InvalidPayload ==
    LET good == MkRaw("L1", AddrA, VariantSparse)
    IN [good EXCEPT !.location.address =
            Some([Unwrap(good.location.address) EXCEPT !.city = None])]

Payloads == ValidPayloads \cup {InvalidPayload}

Min(a, b) == IF a < b THEN a ELSE b

\* the batches one call may receive when `room` payloads are left in the run
Batches(room) == UNION {[1..n -> Payloads] : n \in 0..Min(MaxBatch, room)}

(* ------------------------------------------------------------------ *)
(* SQL values of the tracked columns (rusqlite ToSql / FromSql)       *)
(* ------------------------------------------------------------------ *)
KnownDates == {Date1, Date2}

\* Option<bool> is bound as INTEGER 0/1 and read back as i != 0
ToSqlBool(o) == IF IsSome(o) THEN Some(IF Unwrap(o) THEN 1 ELSE 0) ELSE None
FromSqlBool(o) == IF IsSome(o) THEN Some(Unwrap(o) # 0) ELSE None

\* Option<NaiveDateTime> is bound as TEXT "%F %T%.f" and parsed back
ToSqlDate(o) == IF IsSome(o) THEN Some(DateText(Unwrap(o))) ELSE None
FromSqlDate(o) ==
    IF IsSome(o) THEN Some(CHOOSE d \in KnownDates : DateText(d) = Unwrap(o)) ELSE None

(* ------------------------------------------------------------------ *)
(* Storage operations of db/properties.rs, as functions on a database *)
(* [properties, property_history, property_sources]                   *)
(* ------------------------------------------------------------------ *)
EmptyDb == [properties |-> << >>, property_history |-> << >>,
            property_sources |-> << >>]

\* the row insert_property / update_property bind for prop
TrackedColumns(prop) ==
    [status           |-> prop.status,
     list_price       |-> prop.list_price,
     sold_price       |-> prop.sold_price,
     sold_date        |-> ToSqlDate(prop.sold_date),
     is_pending       |-> ToSqlBool(prop.is_pending),
     is_contingent    |-> ToSqlBool(prop.is_contingent),
     is_new_listing   |-> ToSqlBool(prop.is_new_listing),
     is_foreclosure   |-> ToSqlBool(prop.is_foreclosure),
     is_price_reduced |-> ToSqlBool(prop.is_price_reduced),
     is_coming_soon   |-> ToSqlBool(prop.is_coming_soon)]

\* the row mapper of find_property_by_address
RowToTracked(row) ==
    [id               |-> row.id,
     status           |-> row.status,
     list_price       |-> row.list_price,
     sold_price       |-> row.sold_price,
     sold_date        |-> FromSqlDate(row.sold_date),
     is_pending       |-> FromSqlBool(row.is_pending),
     is_contingent    |-> FromSqlBool(row.is_contingent),
     is_new_listing   |-> FromSqlBool(row.is_new_listing),
     is_foreclosure   |-> FromSqlBool(row.is_foreclosure),
     is_price_reduced |-> FromSqlBool(row.is_price_reduced),
     is_coming_soon   |-> FromSqlBool(row.is_coming_soon)]

\* the lookup with ?2 bound to the postal code instead of the city
SameAddress_wrong_param(row, prop) ==
    /\ row.address_line = prop.address_line
    /\ row.city = prop.postal_code
    /\ row.postal_code = prop.postal_code

\* the lookup without the postal code
SameAddress_ignore_postal_code(row, prop) ==
    /\ row.address_line = prop.address_line
    /\ row.city = prop.city

SameAddress(row, prop) ==
    /\ row.address_line = prop.address_line
    /\ row.city = prop.city
    /\ row.postal_code = prop.postal_code

\* query_row(...).optional(): the first matching row, or None
find_property_by_address(d, prop) ==
    LET hits == SelectSeq(d.properties, LAMBDA row : SameAddress(row, prop))
    IN IF hits = << >> THEN None ELSE Some(RowToTracked(Head(hits)))

\* last_insert_rowid() of the INSERT: one past the largest rowid
NextRowId(rows) == Len(rows) + 1

insert_property(d, prop, t) ==
    [d EXCEPT !.properties = Append(@,
        [id           |-> NextRowId(d.properties),
         address_line |-> prop.address_line,
         city         |-> prop.city,
         postal_code  |-> prop.postal_code,
         state_abbr   |-> prop.state_abbr,
         county_name  |-> prop.county_name,
         first_seen_at |-> t,
         last_seen_at  |-> t] @@ TrackedColumns(prop))]

\* update_property that keeps the old value of a column when the new one is NULL
update_property_coalesce(d, property_id, prop, t) ==
    [d EXCEPT !.properties =
        [i \in 1..Len(@) |->
            IF @[i].id = property_id
            THEN [last_seen_at |-> t]
                 @@ [f \in FieldSet |-> IF IsSome(TrackedColumns(prop)[f])
                                         THEN TrackedColumns(prop)[f] ELSE @[i][f]]
                 @@ @[i]
            ELSE @[i]]]

\* update_property that also rewrites first_seen_at
update_property_reseed(d, property_id, prop, t) ==
    [d EXCEPT !.properties =
        [i \in 1..Len(@) |->
            IF @[i].id = property_id
            THEN [last_seen_at |-> t, first_seen_at |-> t]
                 @@ TrackedColumns(prop) @@ @[i]
            ELSE @[i]]]

\* update_property without the status column in its SET list
update_property_keep_status(d, property_id, prop, t) ==
    [d EXCEPT !.properties =
        [i \in 1..Len(@) |->
            IF @[i].id = property_id
            THEN [last_seen_at |-> t, status |-> @[i].status]
                 @@ TrackedColumns(prop) @@ @[i]
            ELSE @[i]]]

update_property(d, property_id, prop, t) ==
    [d EXCEPT !.properties =
        [i \in 1..Len(@) |->
            IF @[i].id = property_id
            THEN [last_seen_at |-> t] @@ TrackedColumns(prop) @@ @[i]
            ELSE @[i]]]

RECURSIVE AppendHistory(_, _, _)
AppendHistory(hist, entries, t) ==
    IF entries = << >> THEN hist
    ELSE AppendHistory(
            Append(hist, [id             |-> Len(hist) + 1,
                          property_id    |-> Head(entries).property_id,
                          observed_at    |-> t,
                          field_name     |-> Head(entries).field_name,
                          previous_value |-> Head(entries).previous_value,
                          current_value  |-> Head(entries).current_value]),
            Tail(entries), t)

\* log_changes as a REPLACE of the property's earlier rows
log_changes_replace(d, chs, t) ==
    [d EXCEPT !.property_history =
        AppendHistory(SelectSeq(@, LAMBDA h : h.property_id # chs[1].property_id),
                      chs, t)]

\* log_changes that returns after the first change
log_changes_first_only(d, chs, t) ==
    [d EXCEPT !.property_history = AppendHistory(@, <<chs[1]>>, t)]

log_changes(d, chs, t) ==
    [d EXCEPT !.property_history = AppendHistory(@, chs, t)]

\* log_field! without its `if let Some(value)` guard
log_field_unguarded(property_id, prop, f) ==
    << [property_id    |-> property_id,
        field_name     |-> f,
        previous_value |-> None,
        current_value  |-> IF IsSome(prop[f]) THEN FieldText(f, Unwrap(prop[f]))
                           ELSE ""] >>

\* log_field! binding the id after the one insert_property returned
log_field_next_id(property_id, prop, f) ==
    IF IsSome(prop[f])
    THEN << [property_id    |-> property_id + 1,
             field_name     |-> f,
             previous_value |-> None,
             current_value  |-> FieldText(f, Unwrap(prop[f]))] >>
    ELSE << >>

\* one expansion of the log_field! macro
log_field(property_id, prop, f) ==
    IF IsSome(prop[f])
    THEN << [property_id    |-> property_id,
             field_name     |-> f,
             previous_value |-> None,
             current_value  |-> FieldText(f, Unwrap(prop[f]))] >>
    ELSE << >>

log_initial_state(d, property_id, prop, t) ==
    [d EXCEPT !.property_history = AppendHistory(@,
           log_field(property_id, prop, "status")
        \o log_field(property_id, prop, "list_price")
        \o log_field(property_id, prop, "sold_price")
        \o log_field(property_id, prop, "sold_date")
        \o log_field(property_id, prop, "is_pending")
        \o log_field(property_id, prop, "is_contingent")
        \o log_field(property_id, prop, "is_new_listing")
        \o log_field(property_id, prop, "is_foreclosure")
        \o log_field(property_id, prop, "is_price_reduced")
        \o log_field(property_id, prop, "is_coming_soon"), t)]

SameSource(row, prop) ==
    /\ row.source_name = prop.source_name
    /\ row.source_listing_id = prop.source_listing_id

\* INSERT ... ON CONFLICT(source_name, source_listing_id) DO UPDATE
insert_or_update_source(d, property_id, prop, t) ==
    IF \E i \in 1..Len(d.property_sources) : SameSource(d.property_sources[i], prop)
    THEN [d EXCEPT !.property_sources =
            [i \in 1..Len(@) |->
                IF SameSource(@[i], prop)
                THEN [@[i] EXCEPT !.property_id = property_id, !.last_seen_at = t]
                ELSE @[i]]]
    ELSE [d EXCEPT !.property_sources = Append(@,
            [property_id       |-> property_id,
             source_name       |-> prop.source_name,
             source_listing_id |-> prop.source_listing_id,
             first_seen_at     |-> t,
             last_seen_at      |-> t])]

\* update_source writing first_seen_at
update_source_first_seen(d, prop, t) ==
    [d EXCEPT !.property_sources =
        [i \in 1..Len(@) |->
            IF SameSource(@[i], prop) THEN [@[i] EXCEPT !.first_seen_at = t]
            ELSE @[i]]]

\* update_source refreshing the tracked property of the address as well
update_source_touch_property(d, prop, t) ==
    [d EXCEPT !.property_sources =
                [i \in 1..Len(@) |->
                    IF SameSource(@[i], prop) THEN [@[i] EXCEPT !.last_seen_at = t]
                    ELSE @[i]],
              !.properties =
                [i \in 1..Len(@) |->
                    IF SameAddress(@[i], prop) THEN [@[i] EXCEPT !.last_seen_at = t]
                    ELSE @[i]]]

\* UPDATE property_sources SET last_seen_at WHERE source_name, source_listing_id
update_source(d, prop, t) ==
    [d EXCEPT !.property_sources =
        [i \in 1..Len(@) |->
            IF SameSource(@[i], prop) THEN [@[i] EXCEPT !.last_seen_at = t]
            ELSE @[i]]]

\* a Transaction that commits when dropped
rollback_commit_on_drop(working, atBegin) == working

\* what the database holds once a Transaction is dropped without commit
\* (rusqlite DropBehavior::Rollback): the state at BEGIN
rollback(working, atBegin) == atBegin

\* process_one_property run to its end without a storage error: t is its
\* `now`, tl the `now` log_changes reads for itself
process_one_property(d, prop, t, tl) ==
    LET maybe_tracked_prop == find_property_by_address(d, prop)
    IN IF IsSome(maybe_tracked_prop)
       THEN LET tracked_prop == Unwrap(maybe_tracked_prop)
                chs == diff(tracked_prop, prop)
            IN IF chs # << >>
               THEN update_source(
                        update_property(log_changes(d, chs, tl), tracked_prop.id, prop, t),
                        prop, t)
               ELSE update_source(d, prop, t)
       ELSE LET new_id == NextRowId(d.properties)
            IN insert_or_update_source(
                   log_initial_state(insert_property(d, prop, t), new_id, prop, t),
                   new_id, prop, t)

(* ------------------------------------------------------------------ *)
(* The change report: get_change_events_for_export, get_recent_changes *)
(* ------------------------------------------------------------------ *)
\* The calendar date of a clock reading: one tick of the model's clock is one
\* day, tick 0 is 2025-12-30, so that the year turns at tick 2.
TickDate(t) ==
    IF t < 2 THEN [y |-> 2025, mo |-> 12, d |-> 30 + t]
    ELSE [y |-> 2026, mo |-> 1, d |-> t - 1]

\* strftime('%Y', observed_at)
strftime_Y(t) == NatText(TickDate(t).y)

\* (now - change_date).num_days(): whole days between two clock readings
num_days(t, change_date) == t - change_date

\* the list prices the payloads of this model carry
KnownPrices == {495000, 500000}

\* str::parse::<i64>().ok() on the texts the history of this model holds
parse_i64(text) ==
    IF \E n \in KnownPrices : IntText(n) = text
    THEN Some(CHOOSE n \in KnownPrices : IntText(n) = text)
    ELSE None

\* Option<bool>.unwrap_or(false)
unwrap_or_false(o) == IF IsSome(o) THEN Unwrap(o) ELSE FALSE

\* Option<String>.unwrap_or_default(), Option<&str>.unwrap_or("")
unwrap_or_default(o) == IF IsSome(o) THEN Unwrap(o) ELSE ""

\* a WHERE clause that lets every field name through
WhereClause_any_field(h, p, state, year_str) ==
    /\ p.state_abbr = Some(state)
    /\ strftime_Y(h.observed_at) = year_str

\* WHERE p.state_abbr = ?1 AND strftime('%Y', h.observed_at) = ?2
\*   AND h.field_name IN ('status', 'list_price')
WhereClause(h, p, state, year_str) ==
    /\ p.state_abbr = Some(state)
    /\ strftime_Y(h.observed_at) = year_str
    /\ h.field_name \in {"status", "list_price"}

\* FROM property_history h JOIN properties p ON h.property_id = p.id WHERE ...:
\* the positions of the history rows selected
Selected(d, state, year_str) ==
    {i \in 1..Len(d.property_history) :
        \E j \in 1..Len(d.properties) :
            /\ d.properties[j].id = d.property_history[i].property_id
            /\ WhereClause(d.property_history[i], d.properties[j], state, year_str)}

\* the properties row the join pairs a history row with
JoinedProperty(d, h) ==
    d.properties[CHOOSE j \in 1..Len(d.properties) : d.properties[j].id = h.property_id]

\* ORDER BY h.observed_at DESC. SQL leaves the order of rows with equal
\* observed_at open; tie is "asc" or "desc", by rowid.
OrderByObservedAtDesc(d, S, tie) ==
    LET Before(a, b) ==
            \/ d.property_history[a].observed_at > d.property_history[b].observed_at
            \/ /\ d.property_history[a].observed_at = d.property_history[b].observed_at
               /\ IF tie = "asc" THEN a < b ELSE a > b
    IN [k \in 1..Cardinality(S) |->
           CHOOSE a \in S : Cardinality({b \in S : Before(b, a)}) = k - 1]

\* the branch on field_name that keeps the stored strings for status rows too
ChangeValues_raw(field_name, sold_date, previous_value_str, current_value_str, current_status) ==
    IF field_name = "status"
    THEN <<"Status Change", unwrap_or_default(previous_value_str), current_value_str>>
    ELSE <<"Price Change", unwrap_or_default(previous_value_str), current_value_str>>

\* (change_type, previous_value, current_value) of a report row
ChangeValues(field_name, sold_date, previous_value_str, current_value_str, current_status) ==
    IF field_name = "status"
    THEN <<"Status Change",
           derive_canonical_status(sold_date, FALSE, FALSE, FALSE, previous_value_str),
           current_status>>
    ELSE <<"Price Change", unwrap_or_default(previous_value_str), current_value_str>>

\* the delta computed as current minus previous
price_reduction_reversed(change_type, previous_value, current_value) ==
    IF change_type = "Price Change"
       /\ IsSome(parse_i64(previous_value)) /\ IsSome(parse_i64(current_value))
    THEN Some(Unwrap(parse_i64(current_value)) - Unwrap(parse_i64(previous_value)))
    ELSE None

price_reduction(change_type, previous_value, current_value) ==
    IF change_type = "Price Change"
    THEN LET prev == parse_i64(previous_value)
             curr == parse_i64(current_value)
         IN IF IsSome(prev) /\ IsSome(curr)
            THEN Some(Unwrap(prev) - Unwrap(curr))
            ELSE None
    ELSE None

\* the row mapper of get_change_events_for_export: the ChangeViewModel built
\* from history row h joined with properties row p
ViewRow(h, p) ==
    LET sold_date == FromSqlDate(p.sold_date)
        raw_status == p.status
        is_pending == unwrap_or_false(FromSqlBool(p.is_pending))
        is_contingent == unwrap_or_false(FromSqlBool(p.is_contingent))
        is_coming_soon == unwrap_or_false(FromSqlBool(p.is_coming_soon))
        current_status == derive_canonical_status(sold_date, is_pending, is_contingent,
                                                  is_coming_soon, raw_status)
        cv == ChangeValues(h.field_name, sold_date, h.previous_value, h.current_value,
                           current_status)
    IN [change_date       |-> h.observed_at,
        change_type       |-> cv[1],
        previous_value    |-> cv[2],
        current_value     |-> cv[3],
        address_full      |-> p.address_line \o ", " \o p.city \o ", "
                                 \o unwrap_or_default(p.state_abbr) \o " " \o p.postal_code,
        address_line      |-> p.address_line,
        city              |-> p.city,
        county_name       |-> p.county_name,
        state_abbr        |-> p.state_abbr,
        postal_code       |-> p.postal_code,
        price             |-> p.list_price,
        canonical_status  |-> current_status,
        is_ready_to_build |-> (raw_status = Some("ready_to_build")),
        is_new_listing    |-> unwrap_or_false(FromSqlBool(p.is_new_listing)),
        is_price_reduced  |-> unwrap_or_false(FromSqlBool(p.is_price_reduced)),
        is_foreclosure    |-> unwrap_or_false(FromSqlBool(p.is_foreclosure)),
        price_reduction   |-> price_reduction(cv[1], cv[2], cv[3])]

\* the positions of the history rows the query returns, in the order returned
ExportSource(d, state, year, tie) ==
    OrderByObservedAtDesc(d, Selected(d, state, NatText(year)), tie)

get_change_events_for_export(d, state, year, tie) ==
    LET src == ExportSource(d, state, year, tie)
    IN [k \in 1..Len(src) |->
           ViewRow(d.property_history[src[k]],
                   JoinedProperty(d, d.property_history[src[k]]))]

\* t is the Utc::now() the function reads
get_recent_changes(d, days, t, tie) ==
    LET year == TickDate(t).y
        all_changes == get_change_events_for_export(d, "UT", year, tie)
    IN SelectSeq(all_changes, LAMBDA c : num_days(t, c.change_date) <= days)

(* ------------------------------------------------------------------ *)
(* State                                                              *)
(* ------------------------------------------------------------------ *)
VARIABLES
    committed,    \* the durable database: what any later reader sees
    db,           \* the database as seen through the connection (open transaction)
    pc,           \* position inside save_scraped_properties, "idle" between calls
    queue,        \* normalized records of the batch not yet processed
    cur,          \* Option: the record process_one_property works on / has just finished
    last,         \* Option: the last record processed to the end and not rolled back
    prev,         \* Option: the value of last when process_one_property was entered for cur
    path,         \* "none", "new" or "existing": the match arm taken for cur
    now,          \* the `now` of process_one_property
    tracked,      \* Option: result of find_property_by_address for cur
    changes,      \* result of diff on the existing path
    property_id,  \* id returned by insert_property on the new path
    recStart,     \* db when process_one_property was entered for cur
    before,       \* committed when the running / last call was entered
    result,       \* "none" while running, then "Ok" or "Err"
    errAt,        \* pc at which the storage error of the last call struck
    done,         \* records of the running / last call processed to the end
    fed,          \* raw payloads handed to the pipeline so far
    batch,        \* the raw payloads of the running / last call, in input order
    processed,    \* the records of the running call processed to the end, in order
    clock,        \* wall clock (Utc::now)
    dSelf,        \* diff harness: the TrackedProperty
    dNew,         \* diff harness: the ScrapedProperty
    dChanges,     \* diff harness: result of diff
    dEdits,       \* diff harness: single-field edits applied to the base pair
    dPhase,       \* diff harness: "off", "input" or "done"
    sArgs,        \* status harness: the arguments of derive_canonical_status
    sRet,         \* status harness: Option, the label returned
    nRaw,         \* normalizer harness: the raw payload
    nRet,         \* normalizer harness: Option, the Result returned
    report,       \* Option: the last answer of a change report query
    adb,          \* the committed accounts database
    conns,        \* per connection: the redeem call it runs or has last run
    req,          \* the request_link call in progress or last finished
    acfg,         \* MagicLinkConfig and the journal mode of the database file
    aOp,          \* the entitlement function called last, outside request_link
    aRet,         \* the redeem call that returned last, and what consume returned
    wins,         \* per token hash: how often consume_magic_link returned Some
    attempts,     \* number of redeem calls started
    planCalls,    \* number of direct entitlement calls made
    mdb,          \* the mailing database: listings and mailings
    mRet,         \* the create_mailing call that returned last: input and result
    mFirst,       \* per key: Option, what the first successful call returned
    mCalls,       \* number of create_mailing calls made
    scrape_runs,  \* the scrape_runs table
    jobs,         \* the threads POST /admin/scrape has spawned, in spawn order
    posts,        \* number of POST /admin/scrape requests handled
    scrapeResp,   \* the response to the last POST /admin/scrape
    download_events, \* the download_events table
    exports,      \* per worker: the GET /export request it is handling
    exportResp,   \* the response to the GET /export request that ended last
    exportCalls,  \* number of GET /export requests taken up
    exClock,      \* wall clock of the export workers (now_unix), in days
    sessions,     \* the sessions table
    last_login_at, \* users.last_login_at, per user id
    loginRet,     \* the GET /auth/magic request handled last: input and outcome
    sessRet,      \* the load_user_from_session call made since the last request
                  \* that writes: input and result
    fetch,        \* the fetch_html_via_zenrows call in progress or last finished
    pg            \* the fetch_all_properties_paginated call in progress or last finished

ingestVars == <<committed, db, pc, queue, cur, last, prev, path, now, tracked, changes,
                property_id, recStart, before, result, errAt, done, fed, clock,
                batch, processed>>
diffVars == <<dSelf, dNew, dChanges, dEdits, dPhase>>
statusVars == <<sArgs, sRet>>
normVars == <<nRaw, nRet>>
reportVars == <<report>>
authVars == <<adb, conns, req, acfg, aOp, aRet, wins, attempts, planCalls>>
mailVars == <<mdb, mRet, mFirst, mCalls>>
scrapeVars == <<scrape_runs, jobs, posts, scrapeResp>>
exportVars == <<download_events, exports, exportResp, exportCalls, exClock>>
loginVars == <<sessions, last_login_at, loginRet, sessRet>>
scraperVars == <<fetch, pg>>
webVars == <<scrapeVars, exportVars, loginVars, scraperVars>>
vars == <<committed, db, pc, queue, cur, last, prev, path, now, tracked, changes,
          property_id, recStart, before, result, errAt, done, fed, clock,
          batch, processed,
          dSelf, dNew, dChanges, dEdits, dPhase, sArgs, sRet, nRaw, nRet, report,
          adb, conns, req, acfg, aOp, aRet, wins, attempts, planCalls,
          mdb, mRet, mFirst, mCalls,
          scrape_runs, jobs, posts, scrapeResp,
          download_events, exports, exportResp, exportCalls, exClock,
          sessions, last_login_at, loginRet, sessRet,
          fetch, pg>>

IngestInit ==
    /\ committed = EmptyDb
    /\ db = EmptyDb
    /\ pc = "idle"
    /\ queue = << >>
    /\ cur = None
    /\ last = None
    /\ prev = None
    /\ path = "none"
    /\ now = 0
    /\ tracked = None
    /\ changes = << >>
    /\ property_id = 0
    /\ recStart = EmptyDb
    /\ before = EmptyDb
    /\ result = "none"
    /\ errAt = "none"
    /\ done = 0
    /\ fed = 0
    /\ clock = 0
    /\ batch = << >>
    /\ processed = << >>

\* Utc::now(): the clock does not run backwards
ClockReads == clock..Min(clock + 1, MaxClock)

(* ------------------------------------------------------------------ *)
(* save_scraped_properties, statement by statement                    *)
(* ------------------------------------------------------------------ *)
\* entry: normalize the payloads, open the transaction
BeginBatch ==
    /\ pc = "idle"
    /\ \E raws \in Batches(MaxRecords - fed) :
          /\ queue' = NormalizeAll(raws)
          /\ fed' = fed + Len(raws)
          /\ batch' = raws
    /\ processed' = << >>
    /\ pc' = "loop"
    /\ db' = committed
    /\ before' = committed
    /\ result' = "none"
    /\ errAt' = "none"
    /\ done' = 0
    /\ cur' = None
    /\ prev' = None
    /\ path' = "none"
    /\ tracked' = None
    /\ changes' = << >>
    /\ recStart' = committed
    /\ now' = 0
    /\ property_id' = 0
    /\ UNCHANGED <<committed, last, clock>>

\* process_one_property up to the match: read the clock, look the address up,
\* and on a hit compute the diff
FindProperty ==
    /\ pc = "loop"
    /\ queue # << >>
    /\ LET prop == Head(queue)
           hit == find_property_by_address(db, prop)
       IN /\ cur' = Some(prop)
          /\ prev' = last
          /\ queue' = Tail(queue)
          /\ tracked' = hit
          /\ recStart' = db
          /\ IF IsSome(hit)
             THEN /\ path' = "existing"
                  /\ changes' = diff(Unwrap(hit), prop)
                  /\ pc' = IF diff(Unwrap(hit), prop) # << >>
                           THEN "log_changes" ELSE "update_source"
             ELSE /\ path' = "new"
                  /\ changes' = << >>
                  /\ pc' = "insert_property"
    /\ \E t \in ClockReads : now' = t /\ clock' = t
    /\ UNCHANGED <<committed, db, last, property_id, before, result, errAt, done, fed,
                   batch, processed>>

InsertProperty ==
    /\ pc = "insert_property"
    /\ db' = insert_property(db, Unwrap(cur), now)
    /\ property_id' = NextRowId(db.properties)
    /\ pc' = "log_initial_state"
    /\ UNCHANGED <<committed, queue, cur, last, prev, path, now, tracked, changes, recStart,
                   before, result, errAt, done, fed, clock, batch, processed>>

LogInitialState ==
    /\ pc = "log_initial_state"
    /\ db' = log_initial_state(db, property_id, Unwrap(cur), now)
    /\ pc' = "insert_or_update_source"
    /\ UNCHANGED <<committed, queue, cur, last, prev, path, now, tracked, changes, property_id,
                   recStart, before, result, errAt, done, fed, clock, batch, processed>>

InsertOrUpdateSource ==
    /\ pc = "insert_or_update_source"
    /\ db' = insert_or_update_source(db, property_id, Unwrap(cur), now)
    /\ pc' = "loop"
    /\ done' = done + 1
    /\ last' = cur
    /\ processed' = Append(processed, Unwrap(cur))
    /\ UNCHANGED <<committed, queue, cur, prev, path, now, tracked, changes, property_id,
                   recStart, before, result, errAt, fed, clock, batch>>

\* log_changes stamps the rows with its own reading of the clock
LogChanges ==
    /\ pc = "log_changes"
    /\ \E t \in ClockReads :
          /\ db' = log_changes(db, changes, t)
          /\ clock' = t
    /\ pc' = "update_property"
    /\ UNCHANGED <<committed, queue, cur, last, prev, path, now, tracked, changes, property_id,
                   recStart, before, result, errAt, done, fed, batch, processed>>

UpdateProperty ==
    /\ pc = "update_property"
    /\ db' = update_property(db, Unwrap(tracked).id, Unwrap(cur), now)
    /\ pc' = "update_source"
    /\ UNCHANGED <<committed, queue, cur, last, prev, path, now, tracked, changes, property_id,
                   recStart, before, result, errAt, done, fed, clock, batch, processed>>

UpdateSource ==
    /\ pc = "update_source"
    /\ db' = update_source(db, Unwrap(cur), now)
    /\ pc' = "loop"
    /\ done' = done + 1
    /\ last' = cur
    /\ processed' = Append(processed, Unwrap(cur))
    /\ UNCHANGED <<committed, queue, cur, prev, path, now, tracked, changes, property_id,
                   recStart, before, result, errAt, fed, clock, batch>>

\* tx.commit() after the loop
Commit ==
    /\ pc = "loop"
    /\ queue = << >>
    /\ committed' = db
    /\ result' = "Ok"
    /\ pc' = "idle"
    /\ UNCHANGED <<db, queue, cur, last, prev, path, now, tracked, changes, property_id,
                   recStart, before, errAt, done, fed, clock, batch, processed>>

\* any statement of the transaction (or the commit) fails: `?` returns the
\* error, the Transaction is dropped and rolls back
StorageError ==
    /\ pc # "idle"
    /\ db' = rollback(db, committed)
    /\ committed' = rollback(db, committed)
    /\ result' = "Err"
    /\ errAt' = pc
    /\ pc' = "idle"
    /\ queue' = << >>
    /\ cur' = None
    /\ last' = None
    /\ prev' = None
    /\ path' = "none"
    /\ tracked' = None
    /\ changes' = << >>
    /\ recStart' = rollback(db, committed)
    /\ now' = 0
    /\ property_id' = 0
    /\ processed' = << >>
    /\ UNCHANGED <<before, done, fed, clock, batch>>

(* ------------------------------------------------------------------ *)
(* Diff harness: diff applied to pairs around the pairs of the unit    *)
(* test test_property_diff_logic                                       *)
(* ------------------------------------------------------------------ *)
FieldDomain(f) ==
    CASE f = "status" -> {None, Some(""), Some("for_sale"), Some("contingent")}
      [] f \in {"list_price", "sold_price"} -> {None, Some(500000), Some(495000)}
      [] f = "sold_date" -> {None, Some(Date1), Some(Date2)}
      [] OTHER -> {None, Some(FALSE), Some(TRUE)}

\* a TrackedProperty holding the tracked fields of a ScrapedProperty
TrackedWith(id, prop) ==
    [id               |-> id,
     status           |-> prop.status,
     list_price       |-> prop.list_price,
     sold_price       |-> prop.sold_price,
     sold_date        |-> prop.sold_date,
     is_pending       |-> prop.is_pending,
     is_contingent    |-> prop.is_contingent,
     is_new_listing   |-> prop.is_new_listing,
     is_foreclosure   |-> prop.is_foreclosure,
     is_price_reduced |-> prop.is_price_reduced,
     is_coming_soon   |-> prop.is_coming_soon]

BaseNew ==
    {from_scraper_property(MkRaw("L1", AddrA, v)).val :
     v \in {VariantBefore, VariantAfter, VariantSparse}}

BaseSelf == {TrackedWith(1, n) : n \in BaseNew}

DiffOff ==
    /\ dSelf = None
    /\ dNew = None
    /\ dChanges = << >>
    /\ dEdits = 0
    /\ dPhase = "off"

DiffInit ==
    /\ dSelf \in BaseSelf
    /\ dNew \in BaseNew
    /\ dChanges = << >>
    /\ dEdits = 0
    /\ dPhase = "input"

EditSelf ==
    /\ dPhase = "input"
    /\ dEdits < MaxEdits
    /\ \E f \in FieldSet : \E v \in FieldDomain(f) :
          /\ dSelf[f] # v
          /\ dSelf' = [dSelf EXCEPT ![f] = v]
    /\ dEdits' = dEdits + 1
    /\ UNCHANGED <<dNew, dChanges, dPhase>>

EditNew ==
    /\ dPhase = "input"
    /\ dEdits < MaxEdits
    /\ \E f \in FieldSet : \E v \in FieldDomain(f) :
          /\ dNew[f] # v
          /\ dNew' = [dNew EXCEPT ![f] = v]
    /\ dEdits' = dEdits + 1
    /\ UNCHANGED <<dSelf, dChanges, dPhase>>

RunDiff ==
    /\ dPhase = "input"
    /\ dChanges' = diff(dSelf, dNew)
    /\ dPhase' = "done"
    /\ UNCHANGED <<dSelf, dNew, dEdits>>

(* ------------------------------------------------------------------ *)
(* Status harness: derive_canonical_status applied to every            *)
(* combination of its arguments                                        *)
(* ------------------------------------------------------------------ *)
RawStatuses ==
    {None} \cup {Some(t) : t \in {"for_sale", "ready_to_build", "for_rent", "sold",
                                  "contingent", "off_market", ""}}

StatusArgs ==
    [sold_date : {None, Some(Date1)}, is_pending : BOOLEAN, is_contingent : BOOLEAN,
     is_coming_soon : BOOLEAN, raw_status : RawStatuses]

StatusOff ==
    /\ sArgs = None
    /\ sRet = None

StatusInit ==
    /\ sArgs \in StatusArgs
    /\ sRet = None

RunStatus ==
    /\ sRet = None
    /\ sRet' = Some(derive_canonical_status(sArgs.sold_date, sArgs.is_pending,
                                            sArgs.is_contingent, sArgs.is_coming_soon,
                                            sArgs.raw_status))
    /\ UNCHANGED sArgs

(* ------------------------------------------------------------------ *)
(* Normalizer harness: from_scraper_property applied to payloads with  *)
(* required and tracked fields present, empty or absent                *)
(* ------------------------------------------------------------------ *)
TextCases(t) == {None, Some(""), Some(t)}

RawAddresses ==
    {None} \cup
    {Some([line |-> l, city |-> c, state_code |-> Some("UT"), postal_code |-> z]) :
        l \in TextCases(AddrA.line), c \in TextCases(AddrA.city),
        z \in TextCases(AddrA.postal_code)}

\* every tracked field absent
VariantBare ==
    [status |-> None, list_price |-> None, sold_price |-> None,
     description |-> None, flags |-> None]

RawPayloads ==
    {[MkRaw("L1", AddrA, v) EXCEPT !.location.address = a,
                                   !.source.listing_id = lid] :
        a \in RawAddresses, lid \in TextCases("L1"),
        v \in {VariantAfter, VariantSparse, VariantBare}}

NormOff ==
    /\ nRaw = None
    /\ nRet = None

NormInit ==
    /\ nRaw \in RawPayloads
    /\ nRet = None

RunNormalize ==
    /\ nRet = None
    /\ nRet' = Some(from_scraper_property(nRaw))
    /\ UNCHANGED nRaw

(* ------------------------------------------------------------------ *)
(* Report harness: whole calls of save_scraped_properties that commit, *)
(* and the report queries read the committed database                  *)
(* ------------------------------------------------------------------ *)
ReportOff == report = None

\* save_scraped_properties on a single payload from `inputs`, from entry to
\* commit, while fewer than `bound` payloads were fed
SaveOne(inputs, bound) ==
    /\ pc = "idle"
    /\ fed < bound
    /\ \E raw \in inputs : \E t \in ClockReads : \E tl \in t..Min(t + 1, MaxClock) :
          /\ committed' = process_one_property(committed,
                                                from_scraper_property(raw).val, t, tl)
          /\ db' = process_one_property(committed,
                                         from_scraper_property(raw).val, t, tl)
          /\ clock' = tl
    /\ fed' = fed + 1
    /\ report' = None
    /\ UNCHANGED <<pc, queue, cur, last, prev, path, now, tracked, changes, property_id,
                   recStart, before, result, errAt, done, batch, processed>>

SaveListing == SaveOne(ValidPayloads, MaxRecords)

\* one listing scraped again and again, changed or unchanged
RescrapePayloads == {MkRaw("L1", AddrA, VariantAfter), MkRaw("L1", AddrA, VariantSparse)}

Rescrape == SaveOne(RescrapePayloads, MaxScrapes)

ReportStates == {"UT", "ID"}
ReportYears == {2025, 2026}
TieOrders == {"asc", "desc"}
DaysArgs == {0, 1}

ExportChanges ==
    /\ pc = "idle"
    /\ \E state \in ReportStates : \E year \in ReportYears : \E tie \in TieOrders :
          report' = Some([op    |-> "export",
                          state |-> state,
                          year  |-> year,
                          rows  |-> get_change_events_for_export(committed, state, year, tie),
                          src   |-> ExportSource(committed, state, year, tie)])
    /\ UNCHANGED ingestVars

RecentChanges ==
    /\ pc = "idle"
    /\ \E days \in DaysArgs : \E t \in ClockReads : \E tie \in TieOrders :
          /\ report' = Some([op   |-> "recent",
                             days |-> days,
                             now  |-> t,
                             rows |-> get_recent_changes(committed, days, t, tie)])
          /\ clock' = t
    /\ UNCHANGED <<committed, db, pc, queue, cur, last, prev, path, now, tracked, changes,
                   property_id, recStart, before, result, errAt, done, fed, batch,
                   processed>>

(* ------------------------------------------------------------------ *)
(* Accounts: magic links (auth/magic.rs, db/auth.rs) and entitlements  *)
(* (db/plans.rs), as functions on a database                           *)
(* [users, entitlements, magic_links].  The columns no statement of    *)
(* these modules reads back (users.created_at, users.last_login_at,    *)
(* entitlements.granted_at, magic_links.created_at) are left out.      *)
(* ------------------------------------------------------------------ *)
EmptyAuthDb == [users |-> << >>, entitlements |-> << >>, magic_links |-> << >>]

\* the plans the schema seeds
Plans == {"free", "lifetime"}

\* the `now` arguments of the calls: with the time to live of ShortConfig a
\* link requested at 0 is valid at 0, at its expiry at 1, and expired at 2
Times == {0, 1, 2}
\* the `now` argument of request_link
RequestTimes == {0}

\* generate_token_default(): 32 bytes of OsRng; Token(n) is the n-th value it
\* returns, and no value is returned twice
Token(n) == "tok" \o NatText(n)
TokenPool == {Token(n) : n \in 1..MaxLinks}

\* SHA-256 of the token: injective on the tokens of the model
hash_token(token) == "sha256:" \o token

\* str::trim on the tokens handed to redeem
trim(token) == IF token = " " THEN "" ELSE token

RawEmails == {" A@x.io ", "b@x.io", "nobody"}

\* trim, lowercase, and the sanity check
normalize_email(email) ==
    CASE email = " A@x.io " -> Ok("a@x.io")
      [] email = "b@x.io" -> Ok("b@x.io")
      [] OTHER -> Err("BadRequest: invalid email")

UserIds(d) == {d.users[i].id : i \in 1..Len(d.users)}

\* insert or ignore into users, then select id
get_or_create_user(d, email, t) ==
    LET d2 == IF \E i \in 1..Len(d.users) : d.users[i].email = email
              THEN d
              ELSE [d EXCEPT !.users = Append(@,
                       [id |-> NextRowId(d.users), email |-> email])]
        k == CHOOSE i \in 1..Len(d2.users) : d2.users[i].email = email
    IN [db |-> d2, id |-> d2.users[k].id]

\* the rowid SQLite gives a new entitlements row: one past the largest
NextEntitlementId(rows) ==
    IF rows = << >> THEN 1
    ELSE 1 + CHOOSE m \in {rows[i].id : i \in 1..Len(rows)} :
                 \A i \in 1..Len(rows) : rows[i].id <= m

\* ensure_entitlement as an insert or replace
ensure_entitlement_replace(d, user_id, plan_code, t) ==
    [d EXCEPT !.entitlements =
        Append(SelectSeq(@, LAMBDA e : e.user_id # user_id),
               [id |-> NextEntitlementId(@), user_id |-> user_id,
                plan_code |-> plan_code])]

\* insert or ignore into entitlements: user_id is unique
ensure_entitlement(d, user_id, plan_code, t) ==
    IF \E i \in 1..Len(d.entitlements) : d.entitlements[i].user_id = user_id
    THEN d
    ELSE [d EXCEPT !.entitlements = Append(@,
            [id |-> NextEntitlementId(@), user_id |-> user_id,
             plan_code |-> plan_code])]

\* insert or replace into entitlements: the row of the user is deleted and a
\* new row inserted
upgrade_user_plan(d, user_id, plan_code, t) ==
    [d EXCEPT !.entitlements =
        Append(SelectSeq(@, LAMBDA e : e.user_id # user_id),
               [id |-> NextEntitlementId(@), user_id |-> user_id,
                plan_code |-> plan_code])]

insert_magic_link(d, user_id, token_hash, created_at, expires_at) ==
    [d EXCEPT !.magic_links = Append(@,
        [id |-> NextRowId(d.magic_links), user_id |-> user_id,
         token_hash |-> token_hash, expires_at |-> expires_at,
         used_at |-> None])]

\* select ... from magic_links where token_hash = ?, .optional()
SelectByHash(links, token_hash) ==
    LET hits == SelectSeq(links, LAMBDA ml : ml.token_hash = token_hash)
    IN IF hits = << >> THEN None ELSE Some(Head(hits))

\* the validation with `<` in place of `<=`
Rejected_after_expiry(ml, t) == IsSome(ml.used_at) \/ ml.expires_at < t

\* the validation of consume_magic_link
Rejected(ml, t) == IsSome(ml.used_at) \/ ml.expires_at <= t

\* the number of rows the UPDATE changes
Updated(links, id) ==
    Cardinality({i \in 1..Len(links) : links[i].id = id /\ links[i].used_at = None})

\* the UPDATE setting expires_at to the end of the current second
MarkUsed_expires_at(links, id, t) ==
    [i \in 1..Len(links) |->
        IF links[i].id = id /\ links[i].used_at = None
        THEN [links[i] EXCEPT !.expires_at = t + 1] ELSE links[i]]

\* update magic_links set used_at = ? where id = ? and used_at is null
MarkUsed(links, id, t) ==
    [i \in 1..Len(links) |->
        IF links[i].id = id /\ links[i].used_at = None
        THEN [links[i] EXCEPT !.used_at = Some(t)] ELSE links[i]]

\* redeem around the result of consume_magic_link
redeem(d, token, consumed) ==
    IF trim(token) = "" THEN Err("BadRequest: missing token")
    ELSE IF ~consumed.ok THEN consumed
    ELSE IF consumed.val = None
         THEN Err("Unauthorized: invalid or expired link")
         ELSE LET k == CHOOSE i \in 1..Len(d.users) :
                           d.users[i].id = Unwrap(consumed.val)
              IN Ok([user_id |-> Unwrap(consumed.val), email |-> d.users[k].email])

(* ------------------------------------------------------------------ *)
(* Account operations, statement by statement.  Each thread has its    *)
(* own connection (db/connection.rs); two of them run redeem, a third  *)
(* one runs request_link and the entitlement calls.                    *)
(* ------------------------------------------------------------------ *)
Conns == {1, 2}

\* the tokens handed to redeem: the issued ones, one never issued, a blank one
RedeemTokens == TokenPool \cup {Token(0), " "}

JournalModes == {"delete", "wal"}

\* MagicLinkConfig::default()
DefaultConfig == [ttl_secs |-> 15 * 60, default_plan_code |-> "free",
                  journal_mode |-> "delete"]

\* the configuration of the test redeem_fails_if_expired
ShortConfig == [ttl_secs |-> 1, default_plan_code |-> "free"]

NotCalled == Err("not called")

IdleConn == [pc |-> "idle", token |-> "", now |-> 0, ml |-> None, view |-> << >>,
             late |-> FALSE]

\* no consume_magic_link call has returned Some yet
NoWins == [h \in {hash_token(token) : token \in TokenPool} |-> 0]

NoReturn == [now |-> 0, late |-> FALSE, expired |-> FALSE, ret |-> NotCalled,
             out |-> NotCalled]

IdleReq == [pc |-> "idle", email |-> "", user_id |-> 0, now |-> 0]

AuthOff ==
    /\ adb = EmptyAuthDb
    /\ conns = [c \in Conns |-> IdleConn]
    /\ req = IdleReq
    /\ acfg = DefaultConfig
    /\ aOp = "none"
    /\ aRet = NoReturn
    /\ wins = NoWins
    /\ attempts = 0
    /\ planCalls = 0

AuthInit ==
    /\ adb = EmptyAuthDb
    /\ conns = [c \in Conns |-> IdleConn]
    /\ req = IdleReq
    /\ \E mode \in JournalModes :
          acfg = [ttl_secs |-> ShortConfig.ttl_secs,
                  default_plan_code |-> ShortConfig.default_plan_code,
                  journal_mode |-> mode]
    /\ aOp = "none"
    /\ aRet = NoReturn
    /\ wins = NoWins
    /\ attempts = 0
    /\ planCalls = 0

\* an UPDATE that never finds the database locked or its snapshot stale
Busy_never(cs, c, links) == FALSE

\* SQLITE_BUSY for the UPDATE of connection c: another connection holds the
\* write lock, or (WAL) the database has changed since c's transaction read it
Busy(cs, c, links) ==
    \/ \E o \in Conns \ {c} : cs[o].pc = "commit"
    \/ cs[c].view # links

\* the COMMIT of connection c can take the exclusive lock: with a rollback
\* journal no other connection may be inside a read transaction
CanCommit(cs, c, mode) ==
    mode = "wal" \/ \A o \in Conns \ {c} : cs[o].pc = "idle"

\* an autocommit statement of the third connection can write
CanAutocommitWrite(cs, mode) ==
    /\ \A c \in Conns : cs[c].pc # "commit"
    /\ mode = "delete" => \A c \in Conns : cs[c].pc = "idle"

\* the record of a redeem(token, t) call in which consume_magic_link found
\* row and returned consumed; late: it began after a call for the same token
\* had returned Some
Returned(d, token, t, row, late, consumed) ==
    [now |-> t, late |-> late,
     expired |-> IsSome(row) /\ Unwrap(row).expires_at <= t,
     ret |-> consumed, out |-> redeem(d, token, consumed)]

\* redeem up to the UPDATE: trim, hash, BEGIN, SELECT, validate
RedeemBegin(c) ==
    /\ conns[c].pc = "idle"
    /\ attempts < MaxAttempts
    /\ \E token \in RedeemTokens : \E t \in Times :
          LET h == hash_token(trim(token))
              row == SelectByHash(adb.magic_links, h)
              late == h \in DOMAIN wins /\ wins[h] > 0
          IN IF trim(token) = ""
             THEN /\ aRet' = Returned(adb, token, t, None, FALSE, NotCalled)
                  /\ conns' = conns
             ELSE IF row = None \/ Rejected(Unwrap(row), t)
             THEN /\ aRet' = Returned(adb, token, t, row, late, Ok(None))
                  /\ conns' = conns
             ELSE /\ conns' = [conns EXCEPT ![c] =
                        [pc |-> "update", token |-> token, now |-> t, ml |-> row,
                         view |-> adb.magic_links, late |-> late]]
                  /\ aRet' = aRet
    /\ attempts' = attempts + 1
    /\ UNCHANGED <<aOp, adb, req, acfg, wins, planCalls>>

\* the UPDATE with its `used_at is null` guard, and the `updated != 1` exit
ConsumeUpdate(c) ==
    /\ conns[c].pc = "update"
    /\ ~Busy(conns, c, adb.magic_links)
    /\ LET me == conns[c]
           id == Unwrap(me.ml).id
       IN IF Updated(me.view, id) # 1
          THEN /\ conns' = [conns EXCEPT ![c] = IdleConn]
               /\ aRet' = Returned(adb, me.token, me.now, me.ml, me.late, Ok(None))
          ELSE /\ conns' = [conns EXCEPT ![c] =
                     [me EXCEPT !.pc = "commit",
                                !.view = MarkUsed(me.view, id, me.now)]]
               /\ aRet' = aRet
    /\ UNCHANGED <<aOp, adb, req, acfg, wins, attempts, planCalls>>

\* the UPDATE fails with SQLITE_BUSY: `?` returns the error, the transaction
\* is dropped and rolls back
ConsumeBusy(c) ==
    /\ conns[c].pc = "update"
    /\ Busy(conns, c, adb.magic_links)
    /\ conns' = [conns EXCEPT ![c] = IdleConn]
    /\ aRet' = Returned(adb, conns[c].token, conns[c].now, conns[c].ml, conns[c].late,
                         Err("DbError: update magic link used_at failed"))
    /\ UNCHANGED <<aOp, adb, req, acfg, wins, attempts, planCalls>>

\* tx.commit() and the return of Some(ml.user_id)
ConsumeCommit(c) ==
    /\ conns[c].pc = "commit"
    /\ CanCommit(conns, c, acfg.journal_mode)
    /\ adb' = [adb EXCEPT !.magic_links = conns[c].view]
    /\ conns' = [conns EXCEPT ![c] = IdleConn]
    /\ aRet' = Returned(adb, conns[c].token, conns[c].now, conns[c].ml, conns[c].late,
                         Ok(Some(Unwrap(conns[c].ml).user_id)))
    /\ wins' = [wins EXCEPT ![Unwrap(conns[c].ml).token_hash] = @ + 1]
    /\ UNCHANGED <<aOp, req, acfg, attempts, planCalls>>

\* tx.commit() fails with SQLITE_BUSY: another connection still reads
CommitBusy(c) ==
    /\ conns[c].pc = "commit"
    /\ ~CanCommit(conns, c, acfg.journal_mode)
    /\ conns' = [conns EXCEPT ![c] = IdleConn]
    /\ aRet' = Returned(adb, conns[c].token, conns[c].now, conns[c].ml, conns[c].late,
                         Err("DbError: commit tx failed"))
    /\ UNCHANGED <<aOp, adb, req, acfg, wins, attempts, planCalls>>

\* request_link up to get_or_create_user
RequestLink ==
    /\ req.pc = "idle"
    /\ Len(adb.magic_links) < MaxLinks
    /\ \E email \in RawEmails : \E t \in RequestTimes :
          LET n == normalize_email(email)
          IN IF ~n.ok
             THEN /\ req' = IdleReq
                  /\ adb' = adb
             ELSE /\ CanAutocommitWrite(conns, acfg.journal_mode)
                  /\ adb' = get_or_create_user(adb, n.val, t).db
                  /\ req' = [pc |-> "ensure_entitlement", email |-> n.val,
                             user_id |-> get_or_create_user(adb, n.val, t).id,
                             now |-> t]
    /\ UNCHANGED <<aOp, conns, acfg, aRet, wins, attempts, planCalls>>

\* request_link: ensure_entitlement with the default plan
RequestEnsure ==
    /\ req.pc = "ensure_entitlement"
    /\ CanAutocommitWrite(conns, acfg.journal_mode)
    /\ adb' = ensure_entitlement(adb, req.user_id, acfg.default_plan_code, req.now)
    /\ req' = [req EXCEPT !.pc = "insert_magic_link"]
    /\ UNCHANGED <<aOp, conns, acfg, aRet, wins, attempts, planCalls>>

\* request_link: generate the token, insert the link, return
RequestInsert ==
    /\ req.pc = "insert_magic_link"
    /\ CanAutocommitWrite(conns, acfg.journal_mode)
    /\ LET token == Token(Len(adb.magic_links) + 1)
       IN /\ adb' = insert_magic_link(adb, req.user_id, hash_token(token), req.now,
                                      req.now + acfg.ttl_secs)
          /\ req' = IdleReq
    /\ UNCHANGED <<aOp, conns, acfg, aRet, wins, attempts, planCalls>>

\* a statement of request_link fails with SQLITE_BUSY
RequestBusy ==
    /\ req.pc # "idle"
    /\ ~CanAutocommitWrite(conns, acfg.journal_mode)
    /\ req' = IdleReq
    /\ UNCHANGED <<aOp, adb, conns, acfg, aRet, wins, attempts, planCalls>>

\* a direct call of ensure_entitlement for a user
EnsureEntitlement ==
    /\ planCalls < MaxPlanCalls
    /\ \E u \in UserIds(adb) : \E plan \in Plans : \E t \in Times :
          adb' = ensure_entitlement(adb, u, plan, t)
    /\ planCalls' = planCalls + 1
    /\ aOp' = "ensure_entitlement"
    /\ UNCHANGED <<conns, req, acfg, aRet, wins, attempts>>

UpgradeUserPlan ==
    /\ planCalls < MaxPlanCalls
    /\ \E u \in UserIds(adb) : \E plan \in Plans : \E t \in Times :
          adb' = upgrade_user_plan(adb, u, plan, t)
    /\ planCalls' = planCalls + 1
    /\ aOp' = "upgrade_user_plan"
    /\ UNCHANGED <<conns, req, acfg, aRet, wins, attempts>>

(* ------------------------------------------------------------------ *)
(* Mailings: create_mailing (mailings/mailing.rs)                     *)
(* ------------------------------------------------------------------ *)
QR_BASE_URL == "https://yourdomain.com/m"

\* generate_qr_token(): 16 random bytes; QrToken(n) is the n-th value it
\* returns, and no value is returned twice
QrToken(n) == "qr" \o NatText(n)

\* format!("{}/{}", QR_BASE_URL, qr_token)
qr_url(qr_token) == QR_BASE_URL \o "/" \o qr_token

\* the listings of the test create_mailing_uses_real_schema_and_inserts_row,
\* and a newer listing that is no longer on the market; last_seen_at in days
SeededListings ==
    << [id |-> "lst:old", property_id |-> "prop:1", address_line |-> "100 Old St",
        status |-> "for_sale", last_seen_at |-> 2],
       [id |-> "lst:new", property_id |-> "prop:1", address_line |-> "200 New St",
        status |-> "for_sale", last_seen_at |-> 10],
       [id |-> "lst:sold", property_id |-> "prop:1", address_line |-> "300 Sold St",
        status |-> "sold", last_seen_at |-> 12] >>

\* the inputs: a property with listings and one without, two campaigns, two
\* variants
NewMailings ==
    [property_id : {"prop:1", "prop:2"}, campaign : {"spring", "fall"},
     variant : {"A", "B"}]

MailKey(r) == <<r.property_id, r.campaign, r.variant>>

\* CASE WHEN status IN (...) THEN 0 ELSE 1 END
StatusRank(status) ==
    IF status \in {"for_sale", "active", "coming_soon", "pending", "contingent"}
    THEN 0 ELSE 1

\* the rows the listing SELECT can return first: ORDER BY rank, last_seen_at DESC
BestListings(d, prop_id) ==
    LET mine == {i \in 1..Len(d.listings) : d.listings[i].property_id = prop_id}
        Before(i, j) ==
            \/ StatusRank(d.listings[i].status) < StatusRank(d.listings[j].status)
            \/ /\ StatusRank(d.listings[i].status) = StatusRank(d.listings[j].status)
               /\ d.listings[i].last_seen_at > d.listings[j].last_seen_at
    IN {d.listings[i] : i \in {i \in mine : \A j \in mine : ~Before(j, i)}}

\* SELECT id, qr_token FROM mailings WHERE property_id, campaign, variant
ExistingMailing(d, input) ==
    LET hits == SelectSeq(d.mailings, LAMBDA m : MailKey(m) = MailKey(input))
    IN IF hits = << >> THEN None ELSE Some(Head(hits))

\* the INSERT as an INSERT OR REPLACE
InsertMailing_replace(d, input, listing, qr_token) ==
    [d EXCEPT !.mailings =
        Append(SelectSeq(@, LAMBDA m : MailKey(m) # MailKey(input)),
               [id |-> Len(@) + 1, property_id |-> input.property_id,
                listing_id |-> listing.id, campaign |-> input.campaign,
                variant |-> input.variant, address_line |-> listing.address_line,
                qr_token |-> qr_token])]

\* INSERT INTO mailings ... ON CONFLICT(property_id, campaign, variant) DO NOTHING
InsertMailing(d, input, listing, qr_token) ==
    IF IsSome(ExistingMailing(d, input)) THEN d
    ELSE [d EXCEPT !.mailings = Append(@,
            [id |-> NextRowId(d.mailings), property_id |-> input.property_id,
             listing_id |-> listing.id, campaign |-> input.campaign,
             variant |-> input.variant, address_line |-> listing.address_line,
             qr_token |-> qr_token])]

\* create_mailing on database d with the listing the SELECT returned and the
\* token generate_qr_token returned: the database committed and the Result
create_mailing(d, input, listing, qr_token) ==
    LET d2 == InsertMailing(d, input, listing, qr_token)
        changed == Len(d2.mailings) - Len(d.mailings)
        existing == ExistingMailing(d2, input)
    IN IF changed = 1
       THEN [db |-> d2,
             ret |-> Ok(<<d2.mailings[Len(d2.mailings)].id, qr_url(qr_token)>>)]
       ELSE IF IsSome(existing)
       THEN [db |-> d2,
             ret |-> Ok(<<Unwrap(existing).id, qr_url(Unwrap(existing).qr_token)>>)]
       ELSE [db |-> d,
             ret |-> Err("create_mailing: conflict/do-nothing but couldn't load existing mailing")]

NoMailCall == [input |-> None, ret |-> Err("not called")]

MailOff ==
    /\ mdb = [listings |-> << >>, mailings |-> << >>]
    /\ mRet = NoMailCall
    /\ mFirst = [k \in {MailKey(r) : r \in NewMailings} |-> None]
    /\ mCalls = 0

MailInit ==
    /\ mdb = [listings |-> SeededListings, mailings |-> << >>]
    /\ mRet = NoMailCall
    /\ mFirst = [k \in {MailKey(r) : r \in NewMailings} |-> None]
    /\ mCalls = 0

\* one call of create_mailing, in its transaction
CreateMailing ==
    /\ mCalls < MaxMailCalls
    /\ \E input \in NewMailings :
          IF BestListings(mdb, input.property_id) = {}
          THEN /\ mRet' = [input |-> Some(input),
                           ret |-> Err("create_mailing: no listings found")]
               /\ UNCHANGED <<mdb, mFirst>>
          ELSE \E listing \in BestListings(mdb, input.property_id) :
                  LET r == create_mailing(mdb, input, listing, QrToken(mCalls + 1))
                  IN /\ mdb' = r.db
                     /\ mRet' = [input |-> Some(input), ret |-> r.ret]
                     /\ mFirst' = IF r.ret.ok /\ mFirst[MailKey(input)] = None
                                  THEN [mFirst EXCEPT ![MailKey(input)] = Some(r.ret.val)]
                                  ELSE mFirst
    /\ mCalls' = mCalls + 1

(* ------------------------------------------------------------------ *)
(* Scrape runs: POST /admin/scrape (router.rs), start_scrape_run and   *)
(* end_scrape_run (db/scrapes.rs).  The timestamps of scrape_runs are  *)
(* written and only read for display; the rows keep id, state and the  *)
(* outcome.  RealtorScraper::run_realtor_scrape is the thread body:    *)
(* it records the start of the run, fetches and saves the pages of    *)
(* the state and records the end; it takes no lock and asks no one     *)
(* whether a run for the state is under way.                           *)
(* ------------------------------------------------------------------ *)
\* crate::geos::US_STATES, two of its entries
US_STATES == {<<"UT", "Utah">>, <<"CA", "California">>}

\* what current_user and is_user_admin find out about the sender
Callers == {"anonymous", "member", "admin"}

\* form_first(&pairs, "state") of the bodies sent
StateFields == {None, Some("UT"), Some("CA"), Some("ZZ")}

\* the handler up to the spawn: the response, and the thread to spawn if any
admin_scrape(caller, state_field) ==
    IF caller = "anonymous"
    THEN [resp |-> "302 /login", spawn |-> None]
    ELSE IF caller # "admin"
    THEN [resp |-> "Unauthorized: Admin access required", spawn |-> None]
    ELSE IF state_field = None
    THEN [resp |-> "BadRequest: state is required", spawn |-> None]
    ELSE IF ~\E e \in US_STATES : e[1] = Unwrap(state_field)
    THEN [resp |-> "BadRequest: Invalid state", spawn |-> None]
    ELSE LET e == CHOOSE e \in US_STATES : e[1] = Unwrap(state_field)
         IN [resp |-> "302 /admin",
             spawn |-> Some([state_name |-> e[2], state_abbr |-> e[1],
                             pc |-> "spawned", run_id |-> 0])]

\* INSERT INTO scrape_runs (state, started_at, success) VALUES (?, ?, 0)
start_scrape_run(runs, state_abbr) ==
    Append(runs, [id |-> NextRowId(runs), state |-> state_abbr,
                  finished |-> FALSE, success |-> Some(FALSE)])

\* UPDATE scrape_runs SET finished_at, ..., success WHERE id = ?
end_scrape_run(runs, run_id, success) ==
    [i \in 1..Len(runs) |->
        IF runs[i].id = run_id
        THEN [runs[i] EXCEPT !.finished = TRUE, !.success = Some(success)]
        ELSE runs[i]]

ScrapeOff ==
    /\ scrape_runs = << >>
    /\ jobs = << >>
    /\ posts = 0
    /\ scrapeResp = "none"

\* POST /admin/scrape, the whole handler
PostScrape ==
    /\ posts < MaxPosts
    /\ \E caller \in Callers : \E state_field \in StateFields :
          LET r == admin_scrape(caller, state_field)
          IN /\ scrapeResp' = r.resp
             /\ jobs' = IF IsSome(r.spawn) THEN Append(jobs, Unwrap(r.spawn)) ELSE jobs
    /\ posts' = posts + 1
    /\ UNCHANGED scrape_runs

\* the spawned thread records the start of its run
RunStart(j) ==
    /\ jobs[j].pc = "spawned"
    /\ scrape_runs' = start_scrape_run(scrape_runs, jobs[j].state_abbr)
    /\ jobs' = [jobs EXCEPT ![j].pc = "scraping", ![j].run_id = NextRowId(scrape_runs)]
    /\ UNCHANGED <<posts, scrapeResp>>

\* the thread has fetched and saved its pages, or given up, and records the end
RunEnd(j) ==
    /\ jobs[j].pc = "scraping"
    /\ \E success \in BOOLEAN :
          scrape_runs' = end_scrape_run(scrape_runs, jobs[j].run_id, success)
    /\ jobs' = [jobs EXCEPT ![j].pc = "finished"]
    /\ UNCHANGED <<posts, scrapeResp>>

(* ------------------------------------------------------------------ *)
(* Downloads: GET /export (router.rs), count_downloads_this_month and  *)
(* record_download (db/downloads.rs).  One tick of the clock is one    *)
(* day (TickDate); the accounts are user 1 on the free plan, user 2 on *)
(* the lifetime plan.                                                  *)
(* ------------------------------------------------------------------ *)
\* plans.download_limit as the schema seeds it
download_limit(plan_code) == IF plan_code = "free" THEN Some(4) ELSE None

\* get_user_plan: entitlements join plans
get_user_plan(user_id) ==
    LET code == IF user_id = 1 THEN "free" ELSE "lifetime"
    IN [code |-> code, download_limit |-> download_limit(code)]

\* dt.replace_day(1).replace_time(MIDNIGHT): the tick of the first of the month
start_of_month(t) == t - (TickDate(t).d - 1)

\* select count(*) from download_events where user_id = ? and created_at >= ?
count_downloads_this_month(events, user_id, t) ==
    Len(SelectSeq(events,
                  LAMBDA ev : ev.user_id = user_id /\ ev.created_at >= start_of_month(t)))

\* insert into download_events (user_id, state, format, created_at)
record_download(events, user_id, state, t) ==
    Append(events, [user_id |-> user_id, state |-> state, format |-> "xlsx",
                    created_at |-> t])

\* step 2 of the handler: is the download allowed?
allowed(events, user_id, t) ==
    LET plan == get_user_plan(user_id)
    IN IF IsSome(plan.download_limit)
       THEN ~(count_downloads_this_month(events, user_id, t)
                  >= Unwrap(plan.download_limit))
       ELSE TRUE

\* astra workers serving requests side by side (max_workers(8)); two of them
Workers == {1, 2}

\* current_user of the requests: nobody, or user 1 or 2
ExportUsers == {None, Some(1), Some(2)}

\* query_param(&req, "state")
ExportStates == {None, Some("ut")}

\* to_uppercase() of the state codes sent
to_uppercase(text) == IF text = "ut" THEN "UT" ELSE text

IdleExport == [pc |-> "idle", user_id |-> 0, now |-> 0, state |-> None]

ExportOff ==
    /\ download_events = << >>
    /\ exports = [w \in Workers |-> IdleExport]
    /\ exportResp = "none"
    /\ exportCalls = 0
    /\ exClock = 0

\* worker w takes up a request: authenticate, check the limit
ExportCheck(w) ==
    /\ exports[w].pc = "idle"
    /\ exportCalls < MaxExports
    /\ exportCalls' = exportCalls + 1
    /\ \E t \in exClock..Min(exClock + 1, MaxClock) :
       \E user \in ExportUsers : \E state \in ExportStates :
          /\ exClock' = t
          /\ IF user = None
             THEN /\ exportResp' = "302 /login"
                  /\ UNCHANGED exports
             ELSE IF ~allowed(download_events, Unwrap(user), t)
             THEN /\ exportResp' = "BadRequest: Download limit reached for this month."
                  /\ UNCHANGED exports
             ELSE /\ exports' = [exports EXCEPT ![w] =
                                    [pc |-> "export", user_id |-> Unwrap(user),
                                     now |-> t, state |-> state]]
                  /\ UNCHANGED exportResp
    /\ UNCHANGED download_events

\* worker w builds the spreadsheet and records the download
ExportRecord(w) ==
    /\ exports[w].pc = "export"
    /\ IF exports[w].state = None
       THEN /\ exportResp' = "BadRequest: state is required"
            /\ UNCHANGED download_events
       ELSE /\ download_events' =
                  record_download(download_events, exports[w].user_id,
                                  to_uppercase(Unwrap(exports[w].state)), exports[w].now)
            /\ exportResp' = "200 xlsx"
    /\ exports' = [exports EXCEPT ![w] = IdleExport]
    /\ UNCHANGED <<exportCalls, exClock>>

\* get_listings_by_state, export_listings_xlsx or record_download fails
ExportError(w) ==
    /\ exports[w].pc = "export"
    /\ exportResp' = "DbError"
    /\ exports' = [exports EXCEPT ![w] = IdleExport]
    /\ UNCHANGED <<download_events, exportCalls, exClock>>

(* ------------------------------------------------------------------ *)
(* Login: GET /auth/magic (router.rs), redeem_magic_link               *)
(* (db/magic_auth.rs), create_session and load_user_from_session       *)
(* (auth/sessions.rs).  users.last_login_at is kept per user id in a   *)
(* variable of its own.  Times are unix seconds.                       *)
(* ------------------------------------------------------------------ *)
\* consume_magic_link marking the link before it validates it
consume_magic_link_mark_first(links, token_hash, t) ==
    LET row == SelectByHash(links, token_hash)
    IN IF row = None THEN [links |-> links, ret |-> Ok(None)]
       ELSE IF Rejected(Unwrap(row), t)
       THEN [links |-> MarkUsed(links, Unwrap(row).id, t), ret |-> Ok(None)]
       ELSE [links |-> MarkUsed(links, Unwrap(row).id, t),
             ret |-> Ok(Some(Unwrap(row).user_id))]

\* consume_magic_link on one connection, from BEGIN to COMMIT or rollback:
\* the magic_links table afterwards and the value returned
consume_magic_link(links, token_hash, t) ==
    LET row == SelectByHash(links, token_hash)
    IN IF row = None THEN [links |-> links, ret |-> Ok(None)]
       ELSE IF Rejected(Unwrap(row), t) THEN [links |-> links, ret |-> Ok(None)]
       ELSE IF Updated(links, Unwrap(row).id) # 1
       THEN [links |-> links, ret |-> Ok(None)]
       ELSE [links |-> MarkUsed(links, Unwrap(row).id, t),
             ret |-> Ok(Some(Unwrap(row).user_id))]

\* Sha256::digest(raw_token.as_bytes()): injective on the tokens of the model
Sha256_digest(raw_token) == <<"sha256", raw_token>>

\* create_session: 32 bytes of OsRng, base64; SessionToken(n) is the n-th
\* value, and no value is returned twice
SessionToken(n) == "sess" \o NatText(n)

\* insert into sessions (user_id, token_hash, created_at, expires_at)
create_session(rows, user_id, t, raw_token) ==
    Append(rows, [user_id |-> user_id, token_hash |-> Sha256_digest(raw_token),
                  created_at |-> t, expires_at |-> t + 60 * 60 * 24 * 7,
                  revoked_at |-> None])

\* the lookup with `>=` in place of `>`
load_user_from_session_inclusive(rows, users, raw_token, t) ==
    LET hits == SelectSeq(rows, LAMBDA r :
                    /\ r.token_hash = Sha256_digest(raw_token)
                    /\ r.expires_at >= t
                    /\ r.revoked_at = None
                    /\ \E i \in 1..Len(users) : users[i].id = r.user_id)
    IN IF hits = << >> THEN None
       ELSE LET u == CHOOSE i \in 1..Len(users) : users[i].id = Head(hits).user_id
            IN Some(<<users[u].id, users[u].email>>)

\* select u.id, u.email from sessions s join users u ... .optional()
load_user_from_session(rows, users, raw_token, t) ==
    LET hits == SelectSeq(rows, LAMBDA r :
                    /\ r.token_hash = Sha256_digest(raw_token)
                    /\ r.expires_at > t
                    /\ r.revoked_at = None
                    /\ \E i \in 1..Len(users) : users[i].id = r.user_id)
    IN IF hits = << >> THEN None
       ELSE LET u == CHOOSE i \in 1..Len(users) : users[i].id = Head(hits).user_id
            IN Some(<<users[u].id, users[u].email>>)

\* query_param(&req, "token") of the requests: none, blank, a token never
\* issued, the tokens issued
TokenParams ==
    {None, Some(" "), Some(Token(0))} \cup {Some(Token(n)) : n \in 1..MaxLoginLinks}

\* now_unix() of GET /auth/magic: a link requested at 0 expires at 15 * 60
LoginTimes == {0, 1, 15 * 60}

\* the statement of the handler that fails with a storage error, if any
LoginFaults == {"none", "update last_login_at", "create session"}

\* the session tokens presented: issued ones and a forged one
SessionTokens == {SessionToken(n) : n \in 1..MaxLoginLinks} \cup {"forged"}

\* now of load_user_from_session: seven days after the first two LoginTimes
LoadTimes == {60 * 60 * 24 * 7, 60 * 60 * 24 * 7 + 1}

NoLogin == [token |-> None, now |-> 0, out |-> NotCalled]

NoLoad == [token |-> "", now |-> 0, ret |-> None, called |-> FALSE]

LoginOff ==
    /\ sessions = << >>
    /\ last_login_at = [u \in 1..2 |-> None]
    /\ loginRet = NoLogin
    /\ sessRet = NoLoad

\* POST /auth/request-link up to the mail: request_magic_link
RequestMagicLink ==
    /\ Len(adb.magic_links) < MaxLoginLinks
    /\ \E email \in RawEmails : \E t \in RequestTimes :
          LET n == normalize_email(email)
              u == get_or_create_user(adb, n.val, t)
              d2 == ensure_entitlement(u.db, u.id, acfg.default_plan_code, t)
              token == Token(Len(adb.magic_links) + 1)
          IN IF ~n.ok THEN adb' = adb
             ELSE adb' = insert_magic_link(d2, u.id, hash_token(token), t,
                                           t + acfg.ttl_secs)
    /\ sessRet' = NoLoad
    /\ UNCHANGED <<conns, req, acfg, aOp, aRet, wins, attempts, planCalls>>
    /\ UNCHANGED <<sessions, last_login_at, loginRet>>

\* GET /auth/magic, the whole handler
AuthMagic ==
    /\ attempts < MaxLogins
    /\ attempts' = attempts + 1
    /\ \E param \in TokenParams : \E t \in LoginTimes : \E fault \in LoginFaults :
          IF param = None
          THEN /\ loginRet' = [token |-> param, now |-> t,
                               out |-> Err("BadRequest: missing token")]
               /\ UNCHANGED <<adb, sessions, last_login_at>>
          ELSE LET token == Unwrap(param)
                   c == IF trim(token) = ""
                        THEN [links |-> adb.magic_links, ret |-> NotCalled]
                        ELSE consume_magic_link(adb.magic_links,
                                                hash_token(trim(token)), t)
                   d2 == [adb EXCEPT !.magic_links = c.links]
                   redeemed == redeem(d2, token, c.ret)
               IN /\ adb' = d2
                  /\ IF ~redeemed.ok
                     THEN /\ loginRet' = [token |-> param, now |-> t, out |-> redeemed]
                          /\ UNCHANGED <<sessions, last_login_at>>
                     ELSE IF fault = "update last_login_at"
                     THEN /\ loginRet' = [token |-> param, now |-> t,
                                          out |-> Err("DbError: update last_login_at failed")]
                          /\ UNCHANGED <<sessions, last_login_at>>
                     ELSE IF fault = "create session"
                     THEN /\ last_login_at' =
                                [last_login_at EXCEPT ![redeemed.val.user_id] = Some(t)]
                          /\ loginRet' = [token |-> param, now |-> t,
                                          out |-> Err("DbError: create session failed")]
                          /\ UNCHANGED sessions
                     ELSE /\ last_login_at' =
                                [last_login_at EXCEPT ![redeemed.val.user_id] = Some(t)]
                          /\ sessions' = create_session(sessions, redeemed.val.user_id, t,
                                                        SessionToken(Len(sessions) + 1))
                          /\ loginRet' = [token |-> param, now |-> t,
                                          out |-> Ok(SessionToken(Len(sessions) + 1))]
    /\ sessRet' = NoLoad
    /\ UNCHANGED <<conns, req, acfg, aOp, aRet, wins, planCalls>>

\* current_user: load_user_from_session with the token of the cookie
LoadUser ==
    /\ \E raw_token \in SessionTokens : \E t \in LoadTimes :
          sessRet' = [token |-> raw_token, now |-> t, called |-> TRUE,
                      ret |-> load_user_from_session(sessions, adb.users, raw_token, t)]
    /\ UNCHANGED <<authVars, sessions, last_login_at, loginRet>>

(* ------------------------------------------------------------------ *)
(* The scrape transport: RealtorScraper (scraper/scraper.rs)           *)
(* ------------------------------------------------------------------ *)
MAX_ATTEMPTS == 5

\* the documents ZenRows can hand back for a listing page: the page with
\* its properties, a page listing nothing, a page without __NEXT_DATA__, one
\* whose __NEXT_DATA__ is not JSON, one without props.pageProps.properties
HtmlKinds == {"listing", "empty", "no_next_data", "bad_json", "bad_shape"}

Network(msg) == Err([kind |-> "Network", msg |-> msg])

\* what try_fetch_html_via_zenrows returns: the body of a 2xx answer, or a
\* Network error for a failed send, a non-2xx status or an API error body
\* for page number `page` of the listing
TryOutcomes(page) ==
    {Ok([kind |-> k, page |-> page]) : k \in HtmlKinds}
    \cup {Network("error sending request"), Network("ZenRows HTTP 429"),
          Network("ZenRows API error")}

\* ScraperError::Network(_) | ScraperError::Blocked(_)
Retryable(e) == e.kind \in {"Network", "Blocked"}

IdleFetch == [pc |-> "idle", attempt |-> 0, last_err |-> None, ret |-> None,
              tries |-> << >>]

\* the loop body remembering the first retryable error instead of the last
fetch_html_attempt_first_error(f, outcome) ==
    IF outcome.ok
    THEN [f EXCEPT !.pc = "done", !.ret = Some(outcome)]
    ELSE IF Retryable(outcome.err)
    THEN LET first == IF f.last_err = None THEN Some(outcome.err) ELSE f.last_err
         IN IF f.attempt = MAX_ATTEMPTS
            THEN [f EXCEPT !.pc = "done", !.last_err = first,
                           !.ret = Some(Err(Unwrap(first)))]
            ELSE [f EXCEPT !.attempt = @ + 1, !.last_err = first]
    ELSE [f EXCEPT !.pc = "done", !.ret = Some(outcome)]

\* one pass of the loop `for attempt in 1..=MAX_ATTEMPTS` on the outcome of
\* try_fetch_html_via_zenrows, and the return after the last pass
fetch_html_attempt(f, outcome) ==
    IF outcome.ok
    THEN [f EXCEPT !.pc = "done", !.ret = Some(outcome)]
    ELSE IF Retryable(outcome.err)
    THEN IF f.attempt = MAX_ATTEMPTS
         THEN [f EXCEPT !.pc = "done", !.last_err = Some(outcome.err),
                        !.ret = Some(Err(outcome.err))]
         ELSE [f EXCEPT !.attempt = @ + 1, !.last_err = Some(outcome.err)]
    ELSE [f EXCEPT !.pc = "done", !.ret = Some(outcome)]

MAX_CONSECUTIVE_FAILURES == 3
MAX_PAGES == 500

\* the properties a listing page carries: two per page, each naming its page
PageProperties(page) == << <<page, 1>>, <<page, 2>> >>

\* extract_next_data: the script element, its text, the JSON in it
extract_next_data(html) ==
    IF html.kind = "no_next_data" THEN Err([kind |-> "MissingNextData", msg |-> ""])
    ELSE IF html.kind = "bad_json"
    THEN Err([kind |-> "JsonParse", msg |-> "expected value at line 1 column 1"])
    ELSE Ok(html)

\* extract_properties: data["props"]["pageProps"]["properties"].as_array()
extract_properties(data) ==
    IF data.kind = "bad_shape"
    THEN Err([kind |-> "UnexpectedShape",
              msg |-> "props.pageProps.properties missing or not array"])
    ELSE IF data.kind = "empty" THEN Ok(<< >>)
    ELSE Ok(PageProperties(data.page))

\* fetch_properties_via_zenrows on what fetch_html_via_zenrows returned
fetch_properties_via_zenrows(html_result) ==
    IF ~html_result.ok THEN html_result
    ELSE LET data == extract_next_data(html_result.val)
         IN IF ~data.ok THEN data ELSE extract_properties(data.val)

\* if page == 1 { base_url } else { format!("{base_url}/pg-{page}") }
page_url(base_url, page) ==
    IF page = 1 THEN base_url ELSE base_url \o "/pg-" \o NatText(page)

\* the result counting the page reached instead of the pages seen
PaginatedResult_page(p) ==
    Ok([pages_fetched |-> p.page, properties |-> p.all_properties])

\* Ok(PaginatedResult { pages_fetched: seen_pages.len(), properties })
PaginatedResult(p) ==
    Ok([pages_fetched |-> Cardinality(p.seen_pages), properties |-> p.all_properties])

\* the loop body that never resets consecutive_failures
paginate_no_reset(p, res) ==
    IF res.ok
    THEN IF res.val = << >> \/ p.page \in p.seen_pages
         THEN [p EXCEPT !.pc = "done", !.ret = Some(PaginatedResult(p))]
         ELSE [p EXCEPT !.seen_pages = @ \cup {p.page},
                        !.all_properties = @ \o res.val,
                        !.page = @ + 1]
    ELSE LET q == [p EXCEPT !.consecutive_failures = @ + 1]
         IN IF Retryable(res.err)
            THEN IF q.consecutive_failures >= MAX_CONSECUTIVE_FAILURES
                 THEN [q EXCEPT !.pc = "done", !.ret = Some(PaginatedResult(q))]
                 ELSE q
            ELSE [q EXCEPT !.pc = "done", !.ret = Some(res)]

\* one pass of the loop of fetch_all_properties_paginated below the page cap,
\* on the result of fetch_properties_via_zenrows for the page
paginate(p, res) ==
    IF res.ok
    THEN LET q == [p EXCEPT !.consecutive_failures = 0]
         IN IF res.val = << >> \/ q.page \in q.seen_pages
            THEN [q EXCEPT !.pc = "done", !.ret = Some(PaginatedResult(q))]
            ELSE [q EXCEPT !.seen_pages = @ \cup {q.page},
                           !.all_properties = @ \o res.val,
                           !.page = @ + 1]
    ELSE LET q == [p EXCEPT !.consecutive_failures = @ + 1]
         IN IF Retryable(res.err)
            THEN IF q.consecutive_failures >= MAX_CONSECUTIVE_FAILURES
                 THEN [q EXCEPT !.pc = "done", !.ret = Some(PaginatedResult(q))]
                 ELSE q
            ELSE [q EXCEPT !.pc = "done", !.ret = Some(res)]

\* last: the result of the last page fetch; streak: the failed fetches in a
\* row up to now; good: the fetches that returned a non-empty page; fetched:
\* the page number fetched last and its URL
IdlePages == [pc |-> "idle", page |-> 1, consecutive_failures |-> 0,
              all_properties |-> << >>, seen_pages |-> {}, ret |-> None,
              last |-> None, streak |-> 0, good |-> 0, fetched |-> 0, url |-> ""]

BaseUrl == "https://www.realtor.com/realestateandhomes-search/Utah"

ScraperOff ==
    /\ fetch = IdleFetch
    /\ pg = IdlePages

\* fetch_all_properties_paginated is called
PagesBegin ==
    /\ pg.pc \in {"idle", "done"}
    /\ pg' = [IdlePages EXCEPT !.pc = "loop"]
    /\ UNCHANGED fetch

\* the top of the loop past the cap: `if page > MAX_PAGES { break }`
PageCap ==
    /\ pg.pc = "loop"
    /\ pg.page > MAX_PAGES
    /\ pg' = [pg EXCEPT !.pc = "done", !.ret = Some(PaginatedResult(pg))]
    /\ UNCHANGED fetch

\* one pass of the loop: fetch the page, handle the result
PageFetch ==
    /\ pg.pc = "loop"
    /\ pg.page <= MAX_PAGES
    /\ \E html_result \in TryOutcomes(pg.page) :
          LET res == fetch_properties_via_zenrows(html_result)
          IN pg' = [paginate(pg, res) EXCEPT
                       !.last = Some(res),
                       !.streak = IF res.ok THEN 0 ELSE pg.streak + 1,
                       !.good = IF res.ok /\ res.val # << >> THEN pg.good + 1
                                ELSE pg.good,
                       !.fetched = pg.page,
                       !.url = page_url(BaseUrl, pg.page)]
    /\ UNCHANGED fetch

\* fetch_html_via_zenrows is called
FetchBegin ==
    /\ fetch.pc \in {"idle", "done"}
    /\ fetch' = [IdleFetch EXCEPT !.pc = "try", !.attempt = 1]
    /\ UNCHANGED pg

\* one attempt
FetchTry ==
    /\ fetch.pc = "try"
    /\ \E outcome \in TryOutcomes(1) :
          fetch' = [fetch_html_attempt(fetch, outcome) EXCEPT
                       !.tries = Append(@, outcome)]
    /\ UNCHANGED pg

WebOff == ScrapeOff /\ ExportOff /\ LoginOff /\ ScraperOff

(* ------------------------------------------------------------------ *)
(* Specifications                                                     *)
(* ------------------------------------------------------------------ *)
otherVars == <<diffVars, statusVars, normVars, reportVars, authVars, mailVars, webVars>>

Init == IngestInit /\ DiffOff /\ StatusOff /\ NormOff /\ ReportOff /\ AuthOff /\ MailOff /\ WebOff

Next ==
    \/ BeginBatch /\ UNCHANGED otherVars
    \/ FindProperty /\ UNCHANGED otherVars
    \/ InsertProperty /\ UNCHANGED otherVars
    \/ LogInitialState /\ UNCHANGED otherVars
    \/ InsertOrUpdateSource /\ UNCHANGED otherVars
    \/ LogChanges /\ UNCHANGED otherVars
    \/ UpdateProperty /\ UNCHANGED otherVars
    \/ UpdateSource /\ UNCHANGED otherVars
    \/ Commit /\ UNCHANGED otherVars
    \/ StorageError /\ UNCHANGED otherVars

Spec == Init /\ [][Next]_vars

InitDiff == IngestInit /\ DiffInit /\ StatusOff /\ NormOff /\ ReportOff /\ AuthOff /\ MailOff /\ WebOff

NextDiff ==
    \/ EditSelf /\ UNCHANGED <<ingestVars, statusVars, normVars, reportVars, authVars, mailVars, webVars>>
    \/ EditNew /\ UNCHANGED <<ingestVars, statusVars, normVars, reportVars, authVars, mailVars, webVars>>
    \/ RunDiff /\ UNCHANGED <<ingestVars, statusVars, normVars, reportVars, authVars, mailVars, webVars>>

SpecDiff == InitDiff /\ [][NextDiff]_vars

InitStatus == IngestInit /\ DiffOff /\ StatusInit /\ NormOff /\ ReportOff /\ AuthOff /\ MailOff /\ WebOff

NextStatus == RunStatus /\ UNCHANGED <<ingestVars, diffVars, normVars, reportVars, authVars, mailVars, webVars>>

SpecStatus == InitStatus /\ [][NextStatus]_vars

InitNorm == IngestInit /\ DiffOff /\ StatusOff /\ NormInit /\ ReportOff /\ AuthOff /\ MailOff /\ WebOff

NextNorm == RunNormalize /\ UNCHANGED <<ingestVars, diffVars, statusVars, reportVars, authVars, mailVars, webVars>>

SpecNorm == InitNorm /\ [][NextNorm]_vars

NextReport ==
    \/ SaveListing /\ UNCHANGED <<diffVars, statusVars, normVars, authVars, mailVars, webVars>>
    \/ ExportChanges /\ UNCHANGED <<diffVars, statusVars, normVars, authVars, mailVars, webVars>>

SpecReport == Init /\ [][NextReport]_vars

NextRecent ==
    \/ Rescrape /\ UNCHANGED <<diffVars, statusVars, normVars, authVars, mailVars, webVars>>
    \/ RecentChanges /\ UNCHANGED <<diffVars, statusVars, normVars, authVars, mailVars, webVars>>

SpecRecent == Init /\ [][NextRecent]_vars

nonAuthVars == <<ingestVars, diffVars, statusVars, normVars, reportVars, mailVars, webVars>>

InitAuth == IngestInit /\ DiffOff /\ StatusOff /\ NormOff /\ ReportOff /\ AuthInit /\ MailOff /\ WebOff

NextAuth ==
    \/ RequestLink /\ UNCHANGED nonAuthVars
    \/ RequestEnsure /\ UNCHANGED nonAuthVars
    \/ RequestInsert /\ UNCHANGED nonAuthVars
    \/ RequestBusy /\ UNCHANGED nonAuthVars
    \/ \E c \in Conns : RedeemBegin(c) /\ UNCHANGED nonAuthVars
    \/ \E c \in Conns : ConsumeUpdate(c) /\ UNCHANGED nonAuthVars
    \/ \E c \in Conns : ConsumeBusy(c) /\ UNCHANGED nonAuthVars
    \/ \E c \in Conns : ConsumeCommit(c) /\ UNCHANGED nonAuthVars
    \/ \E c \in Conns : CommitBusy(c) /\ UNCHANGED nonAuthVars

SpecAuth == InitAuth /\ [][NextAuth]_vars

NextPlans ==
    \/ RequestLink /\ UNCHANGED nonAuthVars
    \/ RequestEnsure /\ UNCHANGED nonAuthVars
    \/ RequestInsert /\ UNCHANGED nonAuthVars
    \/ EnsureEntitlement /\ UNCHANGED nonAuthVars
    \/ UpgradeUserPlan /\ UNCHANGED nonAuthVars

SpecPlans == InitAuth /\ [][NextPlans]_vars

InitMail == IngestInit /\ DiffOff /\ StatusOff /\ NormOff /\ ReportOff /\ AuthOff /\ MailInit /\ WebOff

NextMail ==
    CreateMailing
    /\ UNCHANGED <<ingestVars, diffVars, statusVars, normVars, reportVars, authVars, webVars>>

SpecMail == InitMail /\ [][NextMail]_vars

nonWebVars ==
    <<ingestVars, diffVars, statusVars, normVars, reportVars, authVars, mailVars>>

NextScrape ==
    \/ PostScrape /\ UNCHANGED <<nonWebVars, exportVars, loginVars, scraperVars>>
    \/ \E j \in 1..Len(jobs) : RunStart(j) /\ UNCHANGED <<nonWebVars, exportVars, loginVars, scraperVars>>
    \/ \E j \in 1..Len(jobs) : RunEnd(j) /\ UNCHANGED <<nonWebVars, exportVars, loginVars, scraperVars>>

SpecScrape == Init /\ [][NextScrape]_vars

NextExport ==
    \/ \E w \in Workers : ExportCheck(w) /\ UNCHANGED <<nonWebVars, scrapeVars, loginVars, scraperVars>>
    \/ \E w \in Workers : ExportRecord(w) /\ UNCHANGED <<nonWebVars, scrapeVars, loginVars, scraperVars>>
    \/ \E w \in Workers : ExportError(w) /\ UNCHANGED <<nonWebVars, scrapeVars, loginVars, scraperVars>>

SpecExport == Init /\ [][NextExport]_vars

nonLoginVars ==
    <<ingestVars, diffVars, statusVars, normVars, reportVars, mailVars, scrapeVars,
      exportVars, scraperVars>>

NextLogin ==
    \/ RequestMagicLink /\ UNCHANGED nonLoginVars
    \/ AuthMagic /\ UNCHANGED nonLoginVars
    \/ LoadUser /\ UNCHANGED nonLoginVars

SpecLogin == Init /\ [][NextLogin]_vars

nonScraperVars == <<nonWebVars, scrapeVars, exportVars, loginVars>>

NextFetch ==
    \/ FetchBegin /\ UNCHANGED nonScraperVars
    \/ FetchTry /\ UNCHANGED nonScraperVars

SpecFetch == Init /\ [][NextFetch]_vars

NextPages ==
    \/ PagesBegin /\ UNCHANGED nonScraperVars
    \/ PageCap /\ UNCHANGED nonScraperVars
    \/ PageFetch /\ UNCHANGED nonScraperVars

SpecPages == Init /\ [][NextPages]_vars

\* the thread running the call is scheduled as long as the call has not returned
SpecPagesFair ==
    /\ Init
    /\ [][NextPages]_vars
    /\ WF_vars((PageCap \/ PageFetch) /\ UNCHANGED nonScraperVars)

(* ------------------------------------------------------------------ *)
(* Vocabulary of the properties                                       *)
(* ------------------------------------------------------------------ *)
IsPrefix(a, b) == Len(a) <= Len(b) /\ SubSeq(b, 1, Len(a)) = a

AddrKey(r) == <<r.address_line, r.city, r.postal_code>>
SrcKey(r) == <<r.source_name, r.source_listing_id>>

TrackedFieldsEqual(a, b) == \A f \in FieldSet : a[f] = b[f]

FieldIndex(f) == CHOOSE i \in 1..Len(Fields) : Fields[i] = f

\* process_one_property has just returned Ok for cur
Processed == pc = "loop" /\ done >= 1 /\ IsSome(cur)

\* the history rows written since process_one_property was entered for cur
NewHistory == SubSeq(db.property_history, Len(recStart.property_history) + 1,
                     Len(db.property_history))

\* the normalized listings the model feeds
NormalizedInputs == {from_scraper_property(p).val : p \in ValidPayloads}

RowsAt(d, prop) == {i \in 1..Len(d.properties) : AddrKey(d.properties[i]) = AddrKey(prop)}
SourcesOf(d, prop) ==
    {i \in 1..Len(d.property_sources) : SrcKey(d.property_sources[i]) = SrcKey(prop)}

(* ------------------------------------------------------------------ *)
(* C1  Atomic batch failure: when a call of save_scraped_properties    *)
(* returns an error, the committed database (and the connection's view *)
(* of it) equals the database before the call; no effect of any record *)
(* of the batch survives.                                              *)
(* ------------------------------------------------------------------ *)
C1_AtomicBatchFailure ==
    (pc = "idle" /\ result = "Err") => (committed = before /\ db = before)

\* a batch that fails in its second record, after the history rows of that
\* record were written, on top of an earlier committed batch
C1_Witness ==
    /\ pc = "idle"
    /\ result = "Err"
    /\ done >= 1
    /\ errAt = "update_property"
    /\ Len(before.properties) >= 1
    /\ committed = before

(* ------------------------------------------------------------------ *)
(* C2  Idempotence: for a tracked row and a listing with the same ten  *)
(* tracked fields diff is empty, processing such a listing appends no  *)
(* history row, and a record ingested directly after itself appends no *)
(* history row.                                                        *)
(* ------------------------------------------------------------------ *)
C2_Idempotence ==
    /\ \A i \in 1..Len(db.properties) : \A n \in NormalizedInputs :
          TrackedFieldsEqual(RowToTracked(db.properties[i]), n)
             => diff(RowToTracked(db.properties[i]), n) = << >>
    /\ (Processed /\ path = "existing"
          /\ TrackedFieldsEqual(Unwrap(tracked), Unwrap(cur)))
          => db.property_history = recStart.property_history
    /\ (Processed /\ prev = cur)
          => db.property_history = recStart.property_history

\* the same record, carrying a sold date and flags, ingested twice in a row
C2_Witness ==
    /\ Processed
    /\ prev = cur
    /\ path = "existing"
    /\ IsSome(Unwrap(cur).sold_date)
    /\ IsSome(Unwrap(cur).is_pending)
    /\ Len(db.property_history) > 0
    /\ db.property_history = recStart.property_history

(* ------------------------------------------------------------------ *)
(* C3  At most one tracked-property row per (address_line, city,       *)
(* postal_code), in the committed database and inside the transaction, *)
(* also when one batch carries the same address several times.         *)
(* ------------------------------------------------------------------ *)
OneRowPerAddress(d) ==
    \A i, j \in 1..Len(d.properties) :
        AddrKey(d.properties[i]) = AddrKey(d.properties[j]) => i = j

C3_OneRowPerAddress == OneRowPerAddress(db) /\ OneRowPerAddress(committed)

\* two records of one batch, from different listings, with the same address
C3_Witness ==
    /\ Processed
    /\ done >= 2
    /\ IsSome(prev)
    /\ AddrKey(Unwrap(prev)) = AddrKey(Unwrap(cur))
    /\ Unwrap(prev).source_listing_id # Unwrap(cur).source_listing_id
    /\ Cardinality(RowsAt(db, Unwrap(cur))) = 1

(* ------------------------------------------------------------------ *)
(* C4  The history log is append-only: every step of an ingestion      *)
(* leaves the existing property_history rows in place, unchanged, and  *)
(* only appends; after a committed batch the history before the batch  *)
(* is a prefix of the committed history.                               *)
(* ------------------------------------------------------------------ *)
C4_HistoryAppendOnly ==
    /\ []((pc = "idle" /\ result = "Ok")
            => IsPrefix(before.property_history, committed.property_history))
    /\ [][/\ IsPrefix(committed.property_history, committed'.property_history)
          /\ (result' # "Err"
                => IsPrefix(db.property_history, db'.property_history))]_vars

\* a committed batch that logged changes of an already tracked property
C4_Witness ==
    /\ pc = "idle"
    /\ result = "Ok"
    /\ path = "existing"
    /\ Len(before.property_history) > 0
    /\ Len(committed.property_history) > Len(before.property_history)

(* ------------------------------------------------------------------ *)
(* C5  New-property seeding: a record whose address is not tracked     *)
(* inserts exactly one tracked-property row and appends exactly one    *)
(* history entry per present tracked field (k present fields give k    *)
(* entries), each with previous value null and the text of the field   *)
(* as current value.                                                   *)
(* ------------------------------------------------------------------ *)
C5_NewPropertySeeding ==
    (Processed /\ path = "new") =>
        LET c == Unwrap(cur)
            present == {f \in FieldSet : IsSome(c[f])}
            id == db.properties[Len(db.properties)].id
        IN /\ Len(db.properties) = Len(recStart.properties) + 1
           /\ IsPrefix(recStart.properties, db.properties)
           /\ AddrKey(db.properties[Len(db.properties)]) = AddrKey(c)
           /\ IsPrefix(recStart.property_history, db.property_history)
           /\ Len(NewHistory) = Cardinality(present)
           /\ \A f \in present :
                 Cardinality({i \in 1..Len(NewHistory) :
                                 NewHistory[i].field_name = f}) = 1
           /\ \A i \in 1..Len(NewHistory) :
                 /\ NewHistory[i].field_name \in present
                 /\ NewHistory[i].property_id = id
                 /\ NewHistory[i].previous_value = None
                 /\ NewHistory[i].current_value =
                        FieldText(NewHistory[i].field_name,
                                  Unwrap(c[NewHistory[i].field_name]))

\* a never-seen address with 4 of the 10 tracked fields present, added to a
\* database that already tracks another property
C5_Witness ==
    /\ Processed
    /\ path = "new"
    /\ Cardinality({f \in FieldSet : IsSome(Unwrap(cur)[f])}) = 4
    /\ Len(recStart.properties) >= 1
    /\ Len(NewHistory) = 4

(* ------------------------------------------------------------------ *)
(* C6  Source upsert: when two payloads with the same (source_name,    *)
(* source_listing_id) are processed one after the other and resolve to *)
(* different tracked properties, there is afterwards exactly one       *)
(* property_sources row for the key, its last-seen is the later        *)
(* processing time and its property_id is the property the later       *)
(* payload resolved to.                                                *)
(* ------------------------------------------------------------------ *)
\* the id of the tracked property the record resolved to
ResolvedId == IF path = "new" THEN property_id ELSE Unwrap(tracked).id

C6_SourceUpsert ==
    (/\ Processed
     /\ IsSome(prev)
     /\ SrcKey(Unwrap(prev)) = SrcKey(Unwrap(cur))
     /\ AddrKey(Unwrap(prev)) # AddrKey(Unwrap(cur)))
    => /\ Cardinality(SourcesOf(db, Unwrap(cur))) = 1
       /\ \A i \in SourcesOf(db, Unwrap(cur)) :
             /\ db.property_sources[i].last_seen_at = now
             /\ db.property_sources[i].property_id = ResolvedId

(* ------------------------------------------------------------------ *)
(* C7  On the existing path the property_sources entry of the record's *)
(* (source_name, source_listing_id) has its last-seen set to the       *)
(* processing time, whether the diff was empty or not.                 *)
(* ------------------------------------------------------------------ *)
C7_SourceLastSeenRefreshed ==
    (Processed /\ path = "existing") =>
        \A i \in SourcesOf(db, Unwrap(cur)) :
            db.property_sources[i].last_seen_at = now

\* an unchanged re-sighting at a later time: empty diff, last-seen moved
C7_Witness ==
    /\ Processed
    /\ path = "existing"
    /\ changes = << >>
    /\ \E i \in SourcesOf(db, Unwrap(cur)) :
          /\ db.property_sources[i].last_seen_at = now
          /\ recStart.property_sources[i].last_seen_at < now

(* ------------------------------------------------------------------ *)
(* C8  After a record is processed, on either path, exactly one        *)
(* tracked-property row has the record's address and it holds the      *)
(* record's ten tracked-field values, absent fields stored as NULL.    *)
(* ------------------------------------------------------------------ *)
C8_RowHoldsRecord ==
    Processed =>
        /\ Cardinality(RowsAt(db, Unwrap(cur))) = 1
        /\ \A i \in RowsAt(db, Unwrap(cur)) : \A f \in FieldSet :
              /\ RowToTracked(db.properties[i])[f] = Unwrap(cur)[f]
              /\ (db.properties[i][f] = None) <=> (Unwrap(cur)[f] = None)

\* a later sighting in which fields changed and a present field became absent
C8_Witness ==
    /\ Processed
    /\ path = "existing"
    /\ changes # << >>
    /\ \E f \in FieldSet : IsSome(Unwrap(tracked)[f]) /\ ~IsSome(Unwrap(cur)[f])
    /\ \A i \in RowsAt(db, Unwrap(cur)) :
          TrackedFieldsEqual(RowToTracked(db.properties[i]), Unwrap(cur))

(* ------------------------------------------------------------------ *)
(* C9  diff returns exactly one PropertyChange per tracked field whose *)
(* two values differ (absent differs from every present value, two     *)
(* absent values are equal), none for an equal field, and the field    *)
(* names appear in the fixed order of Fields.                          *)
(* ------------------------------------------------------------------ *)
C9_DiffOnePerDifferingField ==
    dPhase = "done" =>
        /\ \A f \in FieldSet :
              Cardinality({i \in 1..Len(dChanges) : dChanges[i].field_name = f})
                 = IF dSelf[f] # dNew[f] THEN 1 ELSE 0
        /\ \A i \in 1..Len(dChanges) :
              /\ dChanges[i].field_name \in FieldSet
              /\ dChanges[i].property_id = dSelf.id
        /\ \A i, j \in 1..Len(dChanges) :
              i < j => FieldIndex(dChanges[i].field_name)
                          < FieldIndex(dChanges[j].field_name)

\* a pair that differs in list_price 500000 vs 495000 only: one change
C9_Witness ==
    /\ dPhase = "done"
    /\ dSelf.list_price = Some(500000)
    /\ dNew.list_price = Some(495000)
    /\ \A f \in FieldSet \ {"list_price"} : dSelf[f] = dNew[f]
    /\ Len(dChanges) = 1
    /\ dChanges[1].field_name = "list_price"
    /\ dChanges[1].previous_value = Some("500000")
    /\ dChanges[1].current_value = "495000"

(* ------------------------------------------------------------------ *)
(* C10  Absence vs. false: in every PropertyChange of diff the         *)
(* previous value is null exactly when the tracked value was absent    *)
(* and otherwise its text; the current value is the text of the new    *)
(* value, or "" when the new value is absent; a flag going from        *)
(* Some(false) to None is reported with previous "false", current "".  *)
(* ------------------------------------------------------------------ *)
C10_AbsenceVsFalse ==
    dPhase = "done" =>
        /\ \A i \in 1..Len(dChanges) :
              LET f == dChanges[i].field_name IN
              /\ (dChanges[i].previous_value = None) <=> (dSelf[f] = None)
              /\ IsSome(dSelf[f]) =>
                    dChanges[i].previous_value = Some(FieldText(f, Unwrap(dSelf[f])))
              /\ dChanges[i].current_value =
                    IF IsSome(dNew[f]) THEN FieldText(f, Unwrap(dNew[f])) ELSE ""
        /\ \A f \in FieldSet \ {"status", "list_price", "sold_price", "sold_date"} :
              (dSelf[f] = Some(FALSE) /\ dNew[f] = None) =>
                 \E i \in 1..Len(dChanges) :
                    /\ dChanges[i].field_name = f
                    /\ dChanges[i].previous_value = Some("false")
                    /\ dChanges[i].current_value = ""

\* a flag going from Some(false) to None
C10_Witness ==
    /\ dPhase = "done"
    /\ dSelf.is_pending = Some(FALSE)
    /\ dNew.is_pending = None
    /\ \E i \in 1..Len(dChanges) :
          /\ dChanges[i].field_name = "is_pending"
          /\ dChanges[i].previous_value = Some("false")
          /\ dChanges[i].current_value = ""

(* ------------------------------------------------------------------ *)
(* Vocabulary of the status and normalizer properties                 *)
(* ------------------------------------------------------------------ *)
CanonicalLabels == {"Sold", "Pending", "Contingent", "Coming Soon", "Active", "Other"}

ActiveRawStatuses == {"for_sale", "ready_to_build", "for_rent"}

\* the four identifying fields of a raw payload, in the order of the checks
RequiredFields == <<"address line", "city", "postal code", "source listing id">>

\* the raw value of an identifying field, None when it or its parent is absent
RawRequired(raw, i) ==
    IF i = 4 THEN raw.source.listing_id
    ELSE IF ~IsSome(raw.location.address) THEN None
    ELSE LET a == Unwrap(raw.location.address)
         IN CASE i = 1 -> a.line [] i = 2 -> a.city [] i = 3 -> a.postal_code

Missing(raw, i) == RawRequired(raw, i) \in {None, Some("")}

MissingSet(raw) == {i \in 1..4 : Missing(raw, i)}

FirstMissing(raw) == CHOOSE i \in MissingSet(raw) : \A j \in MissingSet(raw) : i <= j

(* ------------------------------------------------------------------ *)
(* C11  Status precedence: derive_canonical_status returns Sold if     *)
(* sold_date is present; otherwise Pending if is_pending; otherwise    *)
(* Contingent if is_contingent; otherwise Coming Soon if               *)
(* is_coming_soon; otherwise Active if raw_status is for_sale,         *)
(* ready_to_build or for_rent; otherwise Other (also when raw_status   *)
(* is absent); the result is always one of these six labels.           *)
(* ------------------------------------------------------------------ *)
C11_StatusPrecedence ==
    IsSome(sRet) =>
        LET r == Unwrap(sRet)
            sold == IsSome(sArgs.sold_date)
            active == IsSome(sArgs.raw_status)
                         /\ Unwrap(sArgs.raw_status) \in ActiveRawStatuses
        IN /\ r \in CanonicalLabels
           /\ sold => r = "Sold"
           /\ (~sold /\ sArgs.is_pending) => r = "Pending"
           /\ (~sold /\ ~sArgs.is_pending /\ sArgs.is_contingent) => r = "Contingent"
           /\ (~sold /\ ~sArgs.is_pending /\ ~sArgs.is_contingent
                 /\ sArgs.is_coming_soon) => r = "Coming Soon"
           /\ (~sold /\ ~sArgs.is_pending /\ ~sArgs.is_contingent
                 /\ ~sArgs.is_coming_soon /\ active) => r = "Active"
           /\ (~sold /\ ~sArgs.is_pending /\ ~sArgs.is_contingent
                 /\ ~sArgs.is_coming_soon /\ ~active) => r = "Other"

\* a pending and contingent listing that is for sale and not sold
C11_Witness ==
    /\ sRet = Some("Pending")
    /\ ~IsSome(sArgs.sold_date)
    /\ sArgs.is_pending
    /\ sArgs.is_contingent
    /\ sArgs.raw_status = Some("for_sale")

(* ------------------------------------------------------------------ *)
(* C12  Normalization of a raw payload succeeds if and only if address *)
(* line, city, postal code and source listing id are all present and   *)
(* non-empty; when it succeeds these four fields of the result are     *)
(* non-empty; the absence of tracked fields never makes it fail.       *)
(* ------------------------------------------------------------------ *)
C12_NormalizationSucceedsIff ==
    IsSome(nRet) =>
        LET r == Unwrap(nRet)
        IN /\ r.ok <=> MissingSet(nRaw) = {}
           /\ r.ok => /\ r.val.address_line # ""
                       /\ r.val.city # ""
                       /\ r.val.postal_code # ""
                       /\ r.val.source_listing_id # ""

\* a payload with the four identifying fields and no tracked field at all
C12_Witness ==
    /\ IsSome(nRet)
    /\ Unwrap(nRet).ok
    /\ nRaw.status = None
    /\ nRaw.list_price = None
    /\ nRaw.flags = None
    /\ nRaw.description = None

(* ------------------------------------------------------------------ *)
(* C13  As claimed: when normalization fails, the failure names the    *)
(* first missing required field in the order address line, city,       *)
(* postal code, source listing id.                                     *)
(* ------------------------------------------------------------------ *)
C13_FirstMissingNamed_AsClaimed ==
    (IsSome(nRet) /\ ~Unwrap(nRet).ok) =>
        Unwrap(nRet).err = "Missing or empty " \o RequiredFields[FirstMissing(nRaw)]

(* ------------------------------------------------------------------ *)
(* C13  When normalization fails on a payload that has an address      *)
(* object, the failure names the first missing required field in the   *)
(* order address line, city, postal code, source listing id; a payload *)
(* without an address object fails with "Missing address object",      *)
(* which names none of the four fields.                                *)
(* ------------------------------------------------------------------ *)
C13_FirstMissingNamed ==
    (IsSome(nRet) /\ ~Unwrap(nRet).ok) =>
        Unwrap(nRet).err =
            IF IsSome(nRaw.location.address)
            THEN "Missing or empty " \o RequiredFields[FirstMissing(nRaw)]
            ELSE "Missing address object"

\* a payload lacking both the city and the source listing id
C13_Witness ==
    /\ IsSome(nRet)
    /\ MissingSet(nRaw) = {2, 4}
    /\ Unwrap(nRet) = [ok |-> FALSE, err |-> "Missing or empty city"]

(* ------------------------------------------------------------------ *)
(* Vocabulary of the batch and identity properties                    *)
(* ------------------------------------------------------------------ *)
\* the payloads of a batch that carry the four identifying fields, in input order
ValidOf(raws) == SelectSeq(raws, LAMBDA r : MissingSet(r) = {})

NormalizedValid(raws) ==
    [i \in 1..Len(ValidOf(raws)) |-> from_scraper_property(ValidOf(raws)[i]).val]

Statements == {"loop", "insert_property", "log_initial_state", "insert_or_update_source",
               "log_changes", "update_property", "update_source"}

IdsAt(d, prop) == {d.properties[i].id : i \in RowsAt(d, prop)}

(* ------------------------------------------------------------------ *)
(* C14  Skip-and-continue: in a batch that mixes valid and invalid     *)
(* payloads and meets no storage error, the invalid payloads are       *)
(* skipped without effect on storage and the valid ones are processed  *)
(* and committed in input order; a call fails only on a storage error, *)
(* never because of an invalid payload.                                *)
(* ------------------------------------------------------------------ *)
C14_SkipAndContinue ==
    /\ pc = "loop" => processed \o queue = NormalizedValid(batch)
    /\ (pc = "idle" /\ result = "Ok") =>
          /\ processed = NormalizedValid(batch)
          /\ done = Len(ValidOf(batch))
          /\ committed = db
          /\ \A i \in 1..Len(processed) : RowsAt(committed, processed[i]) # {}
          /\ \A i \in 1..Len(committed.properties) :
                i > Len(before.properties) =>
                   \E j \in 1..Len(processed) :
                      AddrKey(committed.properties[i]) = AddrKey(processed[j])
          /\ ValidOf(batch) = << >> => committed = before
    /\ result = "Err" => errAt \in Statements

\* an invalid payload followed by a valid one: one record processed and committed
C14_Witness ==
    /\ pc = "idle"
    /\ result = "Ok"
    /\ Len(batch) = 2
    /\ batch[1] = InvalidPayload
    /\ MissingSet(batch[2]) = {}
    /\ done = 1
    /\ Len(committed.properties) = Len(before.properties) + 1

(* ------------------------------------------------------------------ *)
(* C15  Identity resolution: two processed records resolve to the same *)
(* tracked property if and only if their (address line, city, postal   *)
(* code) triples are equal; records with different source listing ids  *)
(* and the same triple share one tracked property; a lookup without a  *)
(* match is "not found" and takes the new path, never an error.        *)
(* ------------------------------------------------------------------ *)
C15_IdentityResolution ==
    Processed =>
        LET c == Unwrap(cur)
        IN /\ path \in {"new", "existing"}
           /\ path = "existing" <=> RowsAt(recStart, c) # {}
           /\ path = "new" <=> tracked = None
           /\ IdsAt(db, c) = {ResolvedId}
           /\ path = "new" =>
                 \A i \in 1..Len(recStart.properties) :
                    recStart.properties[i].id # ResolvedId
           /\ IsSome(prev) =>
                 /\ IdsAt(recStart, Unwrap(prev)) # {}
                 /\ (IdsAt(db, Unwrap(prev)) = IdsAt(db, c))
                       <=> (AddrKey(Unwrap(prev)) = AddrKey(c))

\* the same listing seen at a second address that differs in the postal code
\* only: the lookup finds nothing and a second property is tracked
C15_Witness ==
    /\ Processed
    /\ IsSome(prev)
    /\ SrcKey(Unwrap(prev)) = SrcKey(Unwrap(cur))
    /\ Unwrap(prev).address_line = Unwrap(cur).address_line
    /\ Unwrap(prev).city = Unwrap(cur).city
    /\ Unwrap(prev).postal_code # Unwrap(cur).postal_code
    /\ path = "new"
    /\ IdsAt(db, Unwrap(prev)) # IdsAt(db, Unwrap(cur))

(* ------------------------------------------------------------------ *)
(* Vocabulary of the report properties                                *)
(* ------------------------------------------------------------------ *)
Exported == IsSome(report) /\ Unwrap(report).op = "export"

Recent == IsSome(report) /\ Unwrap(report).op = "recent"

ReportFields == {"status", "list_price"}

\* the history entries a report for (state, year) is to show: by field name,
\* by the year of observed-at, by the state of the entry's property
Reportable(d, state, year) ==
    {i \in 1..Len(d.property_history) :
        /\ d.property_history[i].field_name \in ReportFields
        /\ TickDate(d.property_history[i].observed_at).y = year
        /\ \E j \in 1..Len(d.properties) :
              /\ d.properties[j].id = d.property_history[i].property_id
              /\ d.properties[j].state_abbr = Some(state)}

SeqRange(q) == {q[k] : k \in 1..Len(q)}

NewestFirst(rows) ==
    \A k \in 1..(Len(rows) - 1) : rows[k].change_date >= rows[k + 1].change_date

\* the text is the decimal form of an integer
IsIntegerText(text) == \E n \in KnownPrices : IntText(n) = text

IntegerOf(text) == CHOOSE n \in KnownPrices : IntText(n) = text

\* the history entry and the properties row behind row k of an export
EntryOf(k) == committed.property_history[Unwrap(report).src[k]]

PropertyOfEntry(k) ==
    LET h == EntryOf(k)
    IN committed.properties[CHOOSE j \in 1..Len(committed.properties) :
                               committed.properties[j].id = h.property_id]

(* ------------------------------------------------------------------ *)
(* C16  For a region and a year, get_change_events_for_export returns  *)
(* exactly one row for each history entry whose field name is status   *)
(* or list_price, whose observed-at falls in that year and whose       *)
(* property lies in that region, no row for any other entry, and the   *)
(* rows are ordered by observed-at, newest first.                      *)
(* ------------------------------------------------------------------ *)
C16_ExportSelection ==
    Exported =>
        LET r == Unwrap(report)
        IN /\ Len(r.rows) = Len(r.src)
           /\ Cardinality(SeqRange(r.src)) = Len(r.src)
           /\ SeqRange(r.src) = Reportable(committed, r.state, r.year)
           /\ \A k \in 1..Len(r.rows) :
                 /\ r.rows[k].change_date = EntryOf(k).observed_at
                 /\ r.rows[k].change_type =
                       IF EntryOf(k).field_name = "status" THEN "Status Change"
                       ELSE "Price Change"
                 /\ r.rows[k].postal_code = PropertyOfEntry(k).postal_code
                 /\ r.rows[k].state_abbr = Some(r.state)
           /\ NewestFirst(r.rows)

\* a report of three or more rows of two days, taken from a history that also
\* holds status or price entries of another year or another region
C16_Witness ==
    /\ Exported
    /\ Len(Unwrap(report).rows) >= 3
    /\ Unwrap(report).rows[1].change_date
          > Unwrap(report).rows[Len(Unwrap(report).rows)].change_date
    /\ \E i \in 1..Len(committed.property_history) :
          /\ committed.property_history[i].field_name \in ReportFields
          /\ i \notin SeqRange(Unwrap(report).src)

(* ------------------------------------------------------------------ *)
(* C17  For every report row built from a status history entry,        *)
(* previous_value and current_value are canonical labels and not the   *)
(* stored raw strings; the previous value is derived from the entry's  *)
(* stored previous raw status with is_pending, is_contingent and       *)
(* is_coming_soon all taken as false.                                  *)
(* ------------------------------------------------------------------ *)
C17_StatusRowsCanonical ==
    Exported =>
        \A k \in 1..Len(Unwrap(report).rows) :
            EntryOf(k).field_name = "status" =>
                LET row == Unwrap(report).rows[k]
                IN /\ row.previous_value \in CanonicalLabels
                   /\ row.current_value \in CanonicalLabels
                   /\ row.previous_value =
                         derive_canonical_status(
                             FromSqlDate(PropertyOfEntry(k).sold_date),
                             FALSE, FALSE, FALSE, EntryOf(k).previous_value)

\* the row of a status change from for_sale to off_market: Active, then Other
C17_Witness ==
    /\ Exported
    /\ \E k \in 1..Len(Unwrap(report).rows) :
          /\ EntryOf(k).field_name = "status"
          /\ EntryOf(k).previous_value = Some("for_sale")
          /\ EntryOf(k).current_value = "off_market"
          /\ Unwrap(report).rows[k].previous_value = "Active"
          /\ Unwrap(report).rows[k].current_value = "Other"

(* ------------------------------------------------------------------ *)
(* C18  The property context of a report row (its canonical_status,    *)
(* and for status entries its current value) is the property's state   *)
(* at the time of the history entry: a later ingestion does not alter  *)
(* the report row produced for an earlier history entry.               *)
(* ------------------------------------------------------------------ *)
C18_PointInTimeContext ==
    [][\A i \in 1..Len(committed.property_history) :
          LET h == committed.property_history[i]
              before_row == ViewRow(h, JoinedProperty(committed, h))
              after_row == ViewRow(h, JoinedProperty(committed', h))
          IN h.field_name \in ReportFields =>
                /\ after_row.canonical_status = before_row.canonical_status
                /\ h.field_name = "status" =>
                      after_row.current_value = before_row.current_value]_vars

(* ------------------------------------------------------------------ *)
(* C19  For every list_price report row, price_reduction is previous   *)
(* minus current when both stored values parse as integers, and absent *)
(* otherwise (first sightings with a null previous value, entries with *)
(* an empty current value); for status rows it is always absent.       *)
(* ------------------------------------------------------------------ *)
C19_PriceReduction ==
    Exported =>
        \A k \in 1..Len(Unwrap(report).rows) :
            LET h == EntryOf(k)
                both == /\ IsSome(h.previous_value)
                        /\ IsIntegerText(Unwrap(h.previous_value))
                        /\ IsIntegerText(h.current_value)
            IN Unwrap(report).rows[k].price_reduction =
                  IF h.field_name = "list_price" /\ both
                  THEN Some(IntegerOf(Unwrap(h.previous_value)) - IntegerOf(h.current_value))
                  ELSE None

\* a report with a price cut of 5000, a first sighting and a price withdrawn
C19_Witness ==
    /\ Exported
    /\ \E k \in 1..Len(Unwrap(report).rows) :
          /\ EntryOf(k).field_name = "list_price"
          /\ Unwrap(report).rows[k].price_reduction = Some(5000)
    /\ \E k \in 1..Len(Unwrap(report).rows) :
          /\ EntryOf(k).field_name = "list_price"
          /\ EntryOf(k).previous_value = None
          /\ Unwrap(report).rows[k].price_reduction = None
    /\ \E k \in 1..Len(Unwrap(report).rows) :
          /\ EntryOf(k).field_name = "list_price"
          /\ EntryOf(k).current_value = ""
          /\ Unwrap(report).rows[k].price_reduction = None

(* ------------------------------------------------------------------ *)
(* C20  get_recent_changes(days) returns at most 15 rows, and they are *)
(* the newest rows of the current-year change report whose age is at   *)
(* most `days` days, in newest-first order.                            *)
(* ------------------------------------------------------------------ *)
C20_RecentCapped ==
    Recent =>
        LET r == Unwrap(report)
            Young(tie) ==
                SelectSeq(get_change_events_for_export(committed, "UT",
                                                       TickDate(r.now).y, tie),
                          LAMBDA c : r.now - c.change_date <= r.days)
        IN /\ Len(r.rows) <= 15
           /\ NewestFirst(r.rows)
           /\ \E tie \in TieOrders :
                 r.rows = SubSeq(Young(tie), 1, Min(15, Len(Young(tie))))

(* ------------------------------------------------------------------ *)
(* Vocabulary of the current-state / history consistency properties   *)
(* ------------------------------------------------------------------ *)
\* the columns of a properties row that identify it
FrameColumns == {"id", "address_line", "city", "postal_code", "state_abbr",
                 "county_name", "first_seen_at"}

\* every properties row of d is still in e, with its identifying columns
FrameKept(d, e) ==
    \A i \in 1..Len(d.properties) :
        \E j \in 1..Len(e.properties) :
            \A c \in FrameColumns : e.properties[j][c] = d.properties[i][c]

PropertyIds(d) == {d.properties[i].id : i \in 1..Len(d.properties)}

NoOrphans(d) ==
    /\ \A k \in 1..Len(d.property_history) :
          d.property_history[k].property_id \in PropertyIds(d)
    /\ \A k \in 1..Len(d.property_sources) :
          d.property_sources[k].property_id \in PropertyIds(d)

\* the history entries of one property and field, oldest first
FieldHistory(d, id, f) ==
    SelectSeq(d.property_history,
              LAMBDA h : h.property_id = id /\ h.field_name = f)

\* the text of field f of a properties row, the empty string for NULL
RowText(row, f) ==
    IF IsSome(RowToTracked(row)[f])
    THEN FieldText(f, Unwrap(RowToTracked(row)[f])) ELSE ""

(* ------------------------------------------------------------------ *)
(* C21  A tracked-property row is never deleted from the committed     *)
(* database, and no step of an ingestion changes the id, address line, *)
(* city, postal code (nor state, county) or first-seen timestamp of a  *)
(* row: inside a transaction every step other than the rollback keeps  *)
(* them, so that later sightings touch only the ten tracked fields and *)
(* last-seen.                                                          *)
(* ------------------------------------------------------------------ *)
C21_RowFrame ==
    [][/\ FrameKept(committed, committed')
       /\ (result' # "Err" => FrameKept(db, db'))]_vars

\* a later sighting that rewrote tracked fields of a row first seen earlier
C21_Witness ==
    /\ Processed
    /\ path = "existing"
    /\ changes # << >>
    /\ \E i \in 1..Len(db.properties) :
          /\ db.properties[i].id = Unwrap(tracked).id
          /\ db.properties[i].first_seen_at < db.properties[i].last_seen_at
          /\ db.properties[i].status # recStart.properties[i].status
          /\ db.properties[i].first_seen_at = recStart.properties[i].first_seen_at

(* ------------------------------------------------------------------ *)
(* C22  In every committed state each property_history row and each    *)
(* property_sources row carries the id of an existing properties row,  *)
(* after committed batches and after failed ones.                      *)
(* ------------------------------------------------------------------ *)
C22_NoOrphans == NoOrphans(committed)

\* a batch that failed after it had inserted a new properties row and its
\* history, on top of an earlier committed batch
C22_Witness ==
    /\ pc = "idle"
    /\ result = "Err"
    /\ errAt = "insert_or_update_source"
    /\ Len(committed.property_history) > 0
    /\ Len(committed.property_sources) > 0
    /\ Len(committed.properties) = 1

(* ------------------------------------------------------------------ *)
(* C28  Current state and history agree: in every committed state, for *)
(* every properties row and tracked field, the text of the row's value *)
(* (the empty string for NULL) is the current value of the latest      *)
(* history entry of that property and field, and the value is NULL     *)
(* when there is no such entry.                                        *)
(* ------------------------------------------------------------------ *)
C28_RowMatchesHistory ==
    \A i \in 1..Len(committed.properties) : \A f \in FieldSet :
        LET row == committed.properties[i]
            hs == FieldHistory(committed, row.id, f)
        IN IF hs = << >>
           THEN RowToTracked(row)[f] = None
           ELSE hs[Len(hs)].current_value = RowText(row, f)

\* a committed row one field of which changed value, one went absent and one
\* was never present
C28_Witness ==
    /\ pc = "idle"
    /\ result = "Ok"
    /\ \E i \in 1..Len(committed.properties) :
          LET row == committed.properties[i]
          IN /\ Len(FieldHistory(committed, row.id, "status")) >= 2
             /\ row.status # None
             /\ Len(FieldHistory(committed, row.id, "list_price")) >= 2
             /\ row.list_price = None
             /\ FieldHistory(committed, row.id, "sold_price") = << >>

(* ------------------------------------------------------------------ *)
(* C29  The history of one field forms a chain.  As claimed: of two    *)
(* consecutive entries of the same property and field the later one's  *)
(* previous value is the earlier one's current value, and the first    *)
(* entry of a field has previous value null.                           *)
(* ------------------------------------------------------------------ *)
C29_HistoryChain_AsClaimed ==
    \A i \in 1..Len(committed.properties) : \A f \in FieldSet :
        LET hs == FieldHistory(committed, committed.properties[i].id, f)
        IN /\ hs # << >> => hs[1].previous_value = None
           /\ \A k \in 1..(Len(hs) - 1) :
                 hs[k + 1].previous_value = Some(hs[k].current_value)

\* the later entry continues the earlier one: an absent value is stored as the
\* empty string in current_value and as NULL in previous_value
Continues(earlier, later) ==
    \/ later.previous_value = Some(earlier.current_value)
    \/ later.previous_value = None /\ earlier.current_value = ""

(* C29 as the code has it: of two consecutive entries of the same      *)
(* property and field the later one's previous value is the earlier    *)
(* one's current value, except that after an entry recording the field *)
(* going absent (current value "") the later previous value is null;   *)
(* the first entry of a field has previous value null.                 *)
C29_HistoryChain ==
    \A i \in 1..Len(committed.properties) : \A f \in FieldSet :
        LET hs == FieldHistory(committed, committed.properties[i].id, f)
        IN /\ hs # << >> => hs[1].previous_value = None
           /\ \A k \in 1..(Len(hs) - 1) : Continues(hs[k], hs[k + 1])

\* a field seen present, then absent, then present again, and another field
\* that changed from one value to another
C29_Witness ==
    \E i \in 1..Len(committed.properties) :
        LET lp == FieldHistory(committed, committed.properties[i].id, "list_price")
            st == FieldHistory(committed, committed.properties[i].id, "status")
        IN /\ Len(lp) = 3
           /\ lp[2].current_value = ""
           /\ lp[3].previous_value = None
           /\ Len(st) >= 2
           /\ st[2].previous_value = Some(st[1].current_value)

\* the rows log_changes writes for the changes diff returned
Written == log_changes(EmptyDb, dChanges, 0).property_history

(* ------------------------------------------------------------------ *)
(* C30  Every history entry written for a detected change records a    *)
(* real change.  As claimed: its stored previous value and current     *)
(* value are never the same text, for every field value the normalizer *)
(* can produce, an empty status string included.                       *)
(* ------------------------------------------------------------------ *)
C30_RealChange_AsClaimed ==
    dPhase = "done" =>
        \A k \in 1..Len(Written) :
            Written[k].previous_value # Some(Written[k].current_value)

(* C30 as the code has it: every entry written for a detected change   *)
(* is for a field whose tracked and new values differ structurally;    *)
(* its previous and current texts differ, except for a status that     *)
(* goes from the empty string to absent, which is stored with previous *)
(* value "" and current value "".                                      *)
C30_RealChange ==
    dPhase = "done" =>
        /\ Len(Written) = Len(dChanges)
        /\ \A k \in 1..Len(Written) :
              LET h == Written[k]
              IN /\ dSelf[h.field_name] # dNew[h.field_name]
                 /\ h.previous_value = Some(h.current_value)
                       => /\ h.field_name = "status"
                          /\ dSelf.status = Some("")
                          /\ dNew.status = None

\* an empty status going absent together with a price that changed
C30_Witness ==
    /\ dPhase = "done"
    /\ dSelf.status = Some("")
    /\ dNew.status = None
    /\ Len(Written) >= 2
    /\ Written[1].field_name = "status"
    /\ Written[1].previous_value = Some("")
    /\ Written[1].current_value = ""
    /\ Written[2].field_name = "list_price"
    /\ Written[2].previous_value # Some(Written[2].current_value)

(* ------------------------------------------------------------------ *)
(* Vocabulary of the account properties                               *)
(* ------------------------------------------------------------------ *)
Unauthorized == Err("Unauthorized: invalid or expired link")

LinkIndices == 1..Len(adb.magic_links)

PlanRows(d, u) == {i \in 1..Len(d.entitlements) : d.entitlements[i].user_id = u}

\* the step is a call of ensure_entitlement, inside request_link or direct
EnsureStep ==
    \/ req.pc = "ensure_entitlement" /\ req'.pc = "insert_magic_link"
    \/ planCalls' = planCalls + 1 /\ aOp' = "ensure_entitlement"

(* ------------------------------------------------------------------ *)
(* C23  A magic link is single-use: consume_magic_link returns Some at *)
(* most once per token, and a call that begins after a call for the    *)
(* same token has returned Some returns None, whatever its `now`;      *)
(* redeem then returns Unauthorized.                                   *)
(* ------------------------------------------------------------------ *)
C23_SingleUse ==
    /\ \A h \in DOMAIN wins : wins[h] <= 1
    /\ aRet.late => (aRet.ret = Ok(None) /\ aRet.out = Unauthorized)

\* a second redeem of a consumed link at a time at which it has not expired
C23_Witness ==
    /\ aRet.late
    /\ aRet.ret = Ok(None)
    /\ aRet.out = Unauthorized
    /\ Len(adb.magic_links) = 1
    /\ adb.magic_links[1].used_at # None
    /\ aRet.now < adb.magic_links[1].expires_at

(* ------------------------------------------------------------------ *)
(* C24  An expired magic link cannot be consumed: a call with          *)
(* now >= expires_at returns None (redeem: Unauthorized) and does not  *)
(* set used_at; whenever Some is returned the link had                 *)
(* expires_at > now, and used_at is only ever set to a time before     *)
(* expires_at.                                                         *)
(* ------------------------------------------------------------------ *)
C24_ExpiredRejected ==
    /\ aRet.expired => (aRet.ret = Ok(None) /\ aRet.out = Unauthorized)
    /\ \A i \in LinkIndices :
          adb.magic_links[i].used_at # None
             => Unwrap(adb.magic_links[i].used_at) < adb.magic_links[i].expires_at
    /\ (aRet.ret.ok /\ aRet.ret.val # None)
          => \E i \in LinkIndices :
                /\ adb.magic_links[i].user_id = Unwrap(aRet.ret.val)
                /\ adb.magic_links[i].used_at = Some(aRet.now)
                /\ aRet.now < adb.magic_links[i].expires_at

\* a redeem at the very second of expiry, of a link never used
C24_Witness ==
    /\ aRet.expired
    /\ aRet.ret = Ok(None)
    /\ ~aRet.late
    /\ Len(adb.magic_links) = 1
    /\ adb.magic_links[1].used_at = None
    /\ adb.magic_links[1].expires_at = aRet.now

C26_OneEntitlementPlanKept ==
    /\ [](\A u \in UserIds(adb) : Cardinality(PlanRows(adb, u)) <= 1)
    /\ [][(EnsureStep \/ planCalls' = planCalls)
            => \A u \in UserIds(adb) : \A i \in PlanRows(adb, u) :
                  \E j \in PlanRows(adb', u) :
                      adb'.entitlements[j].plan_code = adb.entitlements[i].plan_code]_vars

\* request_link has run ensure_entitlement for a user upgraded to lifetime
C26_Witness ==
    /\ req.pc = "insert_magic_link"
    /\ aOp = "upgrade_user_plan"
    /\ Len(adb.magic_links) = 1
    /\ \E i \in PlanRows(adb, req.user_id) :
          adb.entitlements[i].plan_code = "lifetime"
    /\ \A u \in UserIds(adb) : Cardinality(PlanRows(adb, u)) = 1

(* ------------------------------------------------------------------ *)
(* Vocabulary of the mailing property                                 *)
(* ------------------------------------------------------------------ *)
MailRows(k) == {i \in 1..Len(mdb.mailings) : MailKey(mdb.mailings[i]) = k}

(* ------------------------------------------------------------------ *)
(* C27  create_mailing is idempotent per (property_id, campaign,       *)
(* variant).  As claimed: after any number of calls with a key there   *)
(* is exactly one mailings row for the key, and every call returns the *)
(* mailing id and QR URL the first call returned.                      *)
(* ------------------------------------------------------------------ *)
C27_Idempotent_AsClaimed ==
    mRet.input # None =>
        LET k == MailKey(Unwrap(mRet.input))
        IN /\ Cardinality(MailRows(k)) = 1
           /\ mRet.ret.ok
           /\ Some(mRet.ret.val) = mFirst[k]

(* C27 as the code has it: for a property that has a listing, any      *)
(* number of calls with one key leave exactly one mailings row for the *)
(* key, and every call returns the id of that row and the QR URL of    *)
(* its token, which are what the first call returned; for a property   *)
(* without listings every call returns an error and no row is written. *)
C27_Idempotent ==
    /\ \A k \in DOMAIN mFirst : Cardinality(MailRows(k)) <= 1
    /\ mRet.input # None =>
          LET input == Unwrap(mRet.input)
              k == MailKey(input)
          IN IF BestListings(mdb, input.property_id) = {}
             THEN ~mRet.ret.ok /\ MailRows(k) = {}
             ELSE /\ Cardinality(MailRows(k)) = 1
                  /\ mRet.ret.ok
                  /\ Some(mRet.ret.val) = mFirst[k]
                  /\ \A i \in MailRows(k) :
                        mRet.ret.val = <<mdb.mailings[i].id,
                                         qr_url(mdb.mailings[i].qr_token)>>

\* the third call with one key, after a call with another key, returning the
\* row of the first call with the address of the best listing
C27_Witness ==
    /\ mCalls = 3
    /\ Len(mdb.mailings) = 2
    /\ mRet.input # None
    /\ mRet.ret = Ok(<<1, qr_url(QrToken(1))>>)
    /\ mdb.mailings[1].listing_id = "lst:new"
    /\ MailKey(mdb.mailings[1]) = MailKey(Unwrap(mRet.input))

(* ------------------------------------------------------------------ *)
(* C31  After a record is processed successfully, on the new or the    *)
(* existing path, a property_sources row exists for the record's       *)
(* (source_name, source_listing_id) and its property_id is the tracked *)
(* property the record resolved to.                                    *)
(* ------------------------------------------------------------------ *)
C31_SourceLinked ==
    Processed =>
        \E i \in SourcesOf(db, Unwrap(cur)) :
            db.property_sources[i].property_id = ResolvedId

(* ------------------------------------------------------------------ *)
(* C32  When a record matches a tracked property and the diff is       *)
(* empty, the properties table (last_seen_at included) and the history *)
(* table are as they were when the record was taken up; in             *)
(* property_sources nothing changes but the last_seen_at of the rows   *)
(* with the record's (source_name, source_listing_id).                 *)
(* ------------------------------------------------------------------ *)
C32_EmptyDiffFrame ==
    (Processed /\ path = "existing" /\ changes = << >>) =>
        /\ db.properties = recStart.properties
        /\ db.property_history = recStart.property_history
        /\ Len(db.property_sources) = Len(recStart.property_sources)
        /\ \A i \in 1..Len(db.property_sources) :
              IF i \in SourcesOf(recStart, Unwrap(cur))
              THEN [db.property_sources[i] EXCEPT !.last_seen_at =
                        recStart.property_sources[i].last_seen_at]
                   = recStart.property_sources[i]
              ELSE db.property_sources[i] = recStart.property_sources[i]

\* an unchanged re-sighting later than the property was last written: the
\* source row moves to the processing time, the tracked row stays behind
C32_Witness ==
    /\ Processed
    /\ path = "existing"
    /\ changes = << >>
    /\ db.property_history # << >>
    /\ \A i \in RowsAt(db, Unwrap(cur)) : db.properties[i].last_seen_at < now
    /\ \E i \in SourcesOf(db, Unwrap(cur)) :
          /\ db.property_sources[i].last_seen_at = now
          /\ recStart.property_sources[i].last_seen_at < now

(* ------------------------------------------------------------------ *)
(* C33  Only one ingestion run per scrape target is active at a time:  *)
(* a POST /admin/scrape for a state that arrives while a run for the   *)
(* same state is in progress starts no second run for that state, so   *)
(* at most one spawned thread per state has not finished.              *)
(* ------------------------------------------------------------------ *)
C33_OneRunPerState ==
    \A e \in US_STATES :
        Cardinality({j \in 1..Len(jobs) :
                        jobs[j].state_abbr = e[1] /\ jobs[j].pc # "finished"}) <= 1

(* ------------------------------------------------------------------ *)
(* C34  Download quota: for a user whose plan has download limit L the *)
(* number of download events recorded through GET /export within one   *)
(* calendar month never exceeds L, also when several requests of the   *)
(* user are handled by different workers at the same time.             *)
(* ------------------------------------------------------------------ *)
C34_QuotaKept ==
    \A u \in {1, 2} : \A t \in 0..MaxClock :
        IsSome(get_user_plan(u).download_limit) =>
            Len(SelectSeq(download_events,
                    LAMBDA ev : /\ ev.user_id = u
                                /\ TickDate(ev.created_at).mo = TickDate(t).mo
                                /\ TickDate(ev.created_at).y = TickDate(t).y))
                <= Unwrap(get_user_plan(u).download_limit)

(* ------------------------------------------------------------------ *)
(* Vocabulary of the login properties                                 *)
(* ------------------------------------------------------------------ *)
SevenDays == 60 * 60 * 24 * 7

\* the sessions whose token hashes to the hash of raw_token
SessionsOf(raw_token) ==
    {i \in 1..Len(sessions) : sessions[i].token_hash = Sha256_digest(raw_token)}

\* the tokens create_session has handed out so far
IssuedSessionTokens == {SessionToken(n) : n \in 1..Len(sessions)}

\* the token of a GET /auth/magic request cannot be redeemed at time t on
\* database d: missing, empty, unknown, already used or expired
Unredeemable(d, param, t) ==
    \/ param = None
    \/ trim(Unwrap(param)) = ""
    \/ LET row == SelectByHash(d.magic_links, hash_token(trim(Unwrap(param))))
       IN \/ row = None
          \/ IsSome(Unwrap(row).used_at)
          \/ Unwrap(row).expires_at <= t

(* ------------------------------------------------------------------ *)
(* C35  load_user_from_session returns a user if and only if a session *)
(* with the hash of the presented token exists, its expires_at is      *)
(* greater than now and it is not revoked; a session created at time t *)
(* authenticates its user at every time before t + 7 days and at no    *)
(* time from t + 7 days on, and a token that was never issued          *)
(* authenticates nobody.                                               *)
(* ------------------------------------------------------------------ *)
C35_SessionAuthenticates ==
    sessRet.called =>
        /\ sessRet.ret # None <=>
               \E i \in SessionsOf(sessRet.token) :
                   /\ sessions[i].expires_at > sessRet.now
                   /\ sessions[i].revoked_at = None
        /\ \A i \in SessionsOf(sessRet.token) :
               /\ sessRet.ret # None <=> sessRet.now < sessions[i].created_at + SevenDays
               /\ sessRet.ret # None =>
                     /\ Unwrap(sessRet.ret)[1] = sessions[i].user_id
                     /\ \E k \in 1..Len(adb.users) :
                           /\ adb.users[k].id = sessions[i].user_id
                           /\ adb.users[k].email = Unwrap(sessRet.ret)[2]
        /\ sessRet.token \notin IssuedSessionTokens => sessRet.ret = None

\* a session created at second 1 still authenticates at the last second
\* before its seventh day is over
C35_Witness ==
    /\ sessRet.called
    /\ sessRet.ret # None
    /\ \E i \in SessionsOf(sessRet.token) :
          /\ sessions[i].created_at = 1
          /\ sessRet.now = sessions[i].created_at + SevenDays - 1

(* ------------------------------------------------------------------ *)
(* C36  A failed redemption (missing, empty, unknown, already used or  *)
(* expired token) changes nothing: no magic link's used_at is set, no  *)
(* last_login_at is updated and no session is created; last_login_at   *)
(* is updated and a session created only by a request whose token was  *)
(* redeemed, which marks the link used at the time of the request.     *)
(* ------------------------------------------------------------------ *)
C36_FailedRedemptionNoChange ==
    [][/\ attempts' # attempts =>
             LET r == loginRet'
             IN /\ Unredeemable(adb, r.token, r.now) =>
                      /\ ~r.out.ok
                      /\ adb' = adb
                      /\ sessions' = sessions
                      /\ last_login_at' = last_login_at
                /\ (sessions' # sessions \/ last_login_at' # last_login_at) =>
                      /\ ~Unredeemable(adb, r.token, r.now)
                      /\ \E i \in 1..Len(adb.magic_links) :
                            /\ adb.magic_links[i].token_hash
                                   = hash_token(trim(Unwrap(r.token)))
                            /\ adb.magic_links[i].used_at = None
                            /\ adb'.magic_links[i].used_at = Some(r.now)
                            /\ last_login_at'[adb.magic_links[i].user_id] = Some(r.now)
                /\ r.out.ok =>
                      /\ Len(sessions') = Len(sessions) + 1
                      /\ sessions'[Len(sessions')].created_at = r.now
       /\ attempts' = attempts =>
             /\ sessions' = sessions
             /\ last_login_at' = last_login_at
             /\ \A i \in 1..Len(adb.magic_links) :
                   adb'.magic_links[i].used_at = adb.magic_links[i].used_at]_vars

\* the link of a token was redeemed at second 1 with a session created; the
\* token is presented again after the link's expiry and is turned away
C36_Witness ==
    /\ attempts = 2
    /\ loginRet.token = Some(Token(1))
    /\ loginRet.now = 15 * 60
    /\ ~loginRet.out.ok
    /\ Len(sessions) = 1
    /\ adb.magic_links[1].used_at = Some(1)
    /\ last_login_at[adb.magic_links[1].user_id] = Some(1)

(* ------------------------------------------------------------------ *)
(* C37  fetch_html_via_zenrows makes at most 5 attempts: it returns    *)
(* the HTML of the first successful attempt, goes on to another        *)
(* attempt only after a Network or Blocked error, returns any other    *)
(* error at once, and after 5 retryable failures returns the error of  *)
(* the last attempt.                                                   *)
(* ------------------------------------------------------------------ *)
C37_FetchRetries ==
    LET n == Len(fetch.tries)
        Failed(k) == ~fetch.tries[k].ok /\ Retryable(fetch.tries[k].err)
    IN /\ n <= 5
       /\ fetch.pc = "try" => /\ n < 5
                              /\ fetch.attempt = n + 1
                              /\ \A k \in 1..n : Failed(k)
       /\ fetch.pc = "done" =>
             /\ n >= 1
             /\ \A k \in 1..(n - 1) : Failed(k)
             /\ fetch.ret = Some(fetch.tries[n])
             /\ Failed(n) => n = 5

\* five failures with different messages: the error returned is the fifth
C37_Witness ==
    /\ fetch.pc = "done"
    /\ Len(fetch.tries) = 5
    /\ fetch.tries[1] # fetch.tries[5]
    /\ fetch.tries[4] # fetch.tries[5]
    /\ fetch.ret = Some(fetch.tries[5])
    /\ ~fetch.tries[5].ok

(* ------------------------------------------------------------------ *)
(* C38  fetch_all_properties_paginated always terminates, whatever the *)
(* page fetcher returns: it does not go on after an empty page, nor    *)
(* after 3 failures in a row of one page (the failure counter starts   *)
(* again at 0 with every successful page), nor after page 500, and it  *)
(* never fetches a page number above 500.                              *)
(* ------------------------------------------------------------------ *)
C38_Terminates ==
    /\ [](/\ pg.fetched <= 500
          /\ pg.pc = "loop" =>
                /\ pg.streak < 3
                /\ pg.consecutive_failures = pg.streak
                /\ pg.last # None =>
                      \/ ~Unwrap(pg.last).ok /\ Retryable(Unwrap(pg.last).err)
                      \/ Unwrap(pg.last).ok /\ Unwrap(pg.last).val # << >>
                /\ pg.page = pg.good + 1
                /\ pg.page <= 500 + 1)
    /\ (pg.pc = "loop") ~> (pg.pc = "done")

\* the call has fetched 500 pages and stopped at the cap
C38_Witness ==
    /\ pg.pc = "done"
    /\ pg.page = 501
    /\ pg.fetched = 500
    /\ pg.url = BaseUrl \o "/pg-500"
    /\ Unwrap(pg.ret).ok
    /\ Unwrap(pg.ret).val.pages_fetched = 500

(* ------------------------------------------------------------------ *)
(* C39  In fetch_all_properties_paginated a non-retryable (parse or    *)
(* shape) error on any page makes the call return that error, with no  *)
(* properties of earlier pages; when the call stops for another reason *)
(* (3 Network/Blocked failures in a row among them) it returns Ok with *)
(* the properties of all pages fetched so far, in page order, and      *)
(* pages_fetched equal to the number of non-empty pages fetched.       *)
(* ------------------------------------------------------------------ *)
C39_ErrorOrPartial ==
    pg.pc = "done" =>
        LET lastRes == Unwrap(pg.last)
            ret == Unwrap(pg.ret)
        IN IF ~lastRes.ok /\ ~Retryable(lastRes.err)
           THEN ret = Err(lastRes.err)
           ELSE /\ ret.ok
                /\ ret.val.pages_fetched = pg.good
                /\ ret.val.properties =
                      [i \in 1..(2 * pg.good) |-> <<(i + 1) \div 2, 2 - (i % 2)>>]

\* two pages fetched, then the third fails three times in a row
C39_Witness ==
    /\ pg.pc = "done"
    /\ pg.streak = 3
    /\ pg.fetched = 3
    /\ Unwrap(pg.ret) = Ok([pages_fetched |-> 2,
                            properties |-> PageProperties(1) \o PageProperties(2)])
====
